---------------------------- MODULE Spec2Model ----------------------------
(***************************************************************************)
(* Distributor product recommendation engine (catalog/distributors.py) and *)
(* the two views that expose it (catalog/views.py).                        *)
(*                                                                         *)
(* Python values that reach the engine from a request body are modelled as *)
(* tagged records, so that a string, a number and None stay distinguishable *)
(* where the code's behaviour depends on the type (float(), <=, iteration). *)
(***************************************************************************)
EXTENDS Integers, Sequences, FiniteSets, TLC

VARIABLES
  heap,    \* list objects of the catalogs written since import (id -> contents)
  specs,   \* the caller's specification mapping (request body)
  ret,     \* outcome of the most recent call
  seen,    \* an earlier matcher call kept for comparison with later ones
  calls    \* the get_all_recommendations calls in progress, one per thread

vars == <<heap, specs, ret, seen, calls>>

----------------------------------------------------------------------------
(* Python values *)

PyNone == [type |-> "NoneType"]
PyInt(n) == [type |-> "int", val |-> n]
PyStr(s) == [type |-> "str", val |-> s]
PyBool(b) == [type |-> "bool", val |-> b]
PyList(l) == [type |-> "list", val |-> l]

\* dict.get(key, default)
Get(d, key, default) == IF key \in DOMAIN d THEN d[key] ELSE default

\* Python truth value of an object
Truthy(v) ==
  CASE v.type = "NoneType" -> FALSE
    [] v.type = "bool" -> v.val
    [] v.type = "int" -> v.val # 0
    [] v.type = "str" -> v.val # ""
    [] v.type = "list" -> Len(v.val) > 0

\* the numeric types for which <, <=, >, >= against an int are defined
IsNumber(v) == v.type = "int"

\* str.lower() on the hardware tokens callers send
Lower(s) ==
  CASE s = "Lockset" -> "lockset"
    [] s = "Electric Strike" -> "electric strike"
    [] s = "Door Closer" -> "door closer"
    [] OTHER -> s

\* s[a:b] and s[a:] of a Python list (0-based, end exclusive, clipped)
Slice(s, a, b) ==
  LET hi == IF b < Len(s) THEN b ELSE Len(s)
  IN  IF a >= hi THEN <<>> ELSE SubSeq(s, a + 1, hi)

InList(x, l) == \E i \in 1..Len(l) : l[i] = x

\* outcome of a computation that may raise
Ok(v) == [raised |-> FALSE, error |-> "", value |-> v]
Raise(e) == [raised |-> TRUE, error |-> e, value |-> <<>>]

\* list.extend of the second outcome onto the first, unless one raised
Then(a, b) ==
  IF a.raised THEN a
  ELSE IF b.raised THEN b
  ELSE Ok(a.value \o b.value)

\* is_fire_rated = fire_rating != 'none'
IsFireRatedTruthy(fire_rating) == Truthy(fire_rating)
IsFireRatedListed(fire_rating) ==
  fire_rating \in {PyStr("20-min"), PyStr("45-min"), PyStr("90-min")}
IsFireRated(fire_rating) == fire_rating # PyStr("none")

\* float(x) as used on width and height
NumericStrings == {"28", "30", "34", "36", "48", "80"}
StrToNum(s) ==
  CASE s = "28" -> 28 [] s = "30" -> 30 [] s = "34" -> 34
    [] s = "36" -> 36 [] s = "48" -> 48 [] s = "80" -> 80
Float(v) ==
  CASE v.type = "int" -> Ok(v.val)
    [] v.type = "bool" -> Ok(IF v.val THEN 1 ELSE 0)
    [] v.type = "str" ->
         IF v.val \in NumericStrings THEN Ok(StrToNum(v.val)) ELSE Raise("ValueError")
    [] OTHER -> Raise("TypeError")

----------------------------------------------------------------------------
(* Catalog store: the PRODUCTS literals of the three distributors *)

DormakabaDistributor_PRODUCTS ==
  [door_closers |-> [surface_mounted |-> <<
        [name |-> "8600 Series Surface Door Closer",
         description |-> "Heavy-duty surface mounted closer for high-traffic commercial applications. Features adjustable closing and latching speeds.",
         url |-> "https://www.dormakaba.com/us-en/offering/products/door-hardware/door-closers",
         model_numbers |-> <<"8616", "8626", "8646">>,
         features |-> <<"Adjustable backcheck", "Delayed action option", "Hold-open arm available">>,
         door_types |-> <<"commercial", "exterior-entry">>,
         fire_rated |-> TRUE,
         max_door_width |-> 48,
         price_range |-> "$150-300"],
        [name |-> "7400 Series Surface Door Closer",
         description |-> "Standard duty surface closer ideal for interior and light commercial doors.",
         url |-> "https://www.dormakaba.com/us-en/offering/products/door-hardware/door-closers",
         model_numbers |-> <<"7416", "7426">>,
         features |-> <<"Tri-pack installation", "Adjustable spring power">>,
         door_types |-> <<"interior", "commercial">>,
         fire_rated |-> TRUE,
         max_door_width |-> 42,
         price_range |-> "$100-200"]
      >>,
     concealed |-> <<
        [name |-> "RTS88 Concealed Overhead Closer",
         description |-> "Concealed in-frame closer for a clean architectural appearance. Ideal for aluminum and glass doors.",
         url |-> "https://www.dormakaba.com/us-en/offering/products/door-hardware/door-closers",
         model_numbers |-> <<"RTS88">>,
         features |-> <<"Concealed installation", "Adjustable backcheck", "Hold-open function">>,
         door_types |-> <<"commercial", "exterior-entry", "interior">>,
         fire_rated |-> TRUE,
         max_door_width |-> 48,
         price_range |-> "$300-500"]
      >>],
   mechanical_locks |-> [mortise |-> <<
        [name |-> "8200 Series Mortise Lock",
         description |-> "Heavy-duty mortise lock for commercial applications. Multiple function options available.",
         url |-> "https://www.dormakaba.com/us-en/offering/products/door-hardware/mechanical-door-locks",
         model_numbers |-> <<"8215", "8217", "8225", "8243">>,
         features |-> <<"Grade 1 certified", "Fire rated", "Multiple lever styles">>,
         door_types |-> <<"commercial", "exterior-entry">>,
         thickness_min |-> "1-3/4",
         fire_rated |-> TRUE,
         price_range |-> "$300-600"]
      >>,
     cylindrical |-> <<
        [name |-> "W Series Cylindrical Lock",
         description |-> "Heavy-duty cylindrical lock for commercial and institutional applications.",
         url |-> "https://www.dormakaba.com/us-en/offering/products/door-hardware/mechanical-door-locks",
         model_numbers |-> <<"W101", "W301", "W501">>,
         features |-> <<"Grade 1 certified", "Large variety of lever designs", "IC core compatible">>,
         door_types |-> <<"commercial", "interior">>,
         thickness_min |-> "1-3/8",
         fire_rated |-> TRUE,
         price_range |-> "$150-350"],
        [name |-> "QCL Series Cylindrical Lock",
         description |-> "QuickConnect technology for easy installation. Ideal for educational and healthcare facilities.",
         url |-> "https://www.dormakaba.com/us-en/offering/products/door-hardware/mechanical-door-locks",
         model_numbers |-> <<"QCL150", "QCL170", "QCL230">>,
         features |-> <<"Tool-free installation", "Grade 2 certified", "Classroom function available">>,
         door_types |-> <<"interior", "commercial">>,
         thickness_min |-> "1-3/8",
         fire_rated |-> TRUE,
         price_range |-> "$100-250"]
      >>,
     deadbolt |-> <<
        [name |-> "DB Series Deadbolt",
         description |-> "Heavy-duty deadbolt for maximum security. Available in single and double cylinder options.",
         url |-> "https://www.dormakaba.com/us-en/offering/products/door-hardware/mechanical-door-locks",
         model_numbers |-> <<"DB1000", "DB2000">>,
         features |-> <<"Grade 1 certified", "1\" throw bolt", "IC core compatible">>,
         door_types |-> <<"exterior-entry", "commercial">>,
         fire_rated |-> FALSE,
         price_range |-> "$80-200"]
      >>],
   exit_devices |-> [rim |-> <<
        [name |-> "9000 Series Rim Exit Device",
         description |-> "Heavy-duty rim exit device for high-traffic emergency egress. Touch bar or cross bar options.",
         url |-> "https://www.dormakaba.com/us-en/offering/products/door-hardware/door-hardware-exit-devices",
         model_numbers |-> <<"9100", "9200", "9300">>,
         features |-> <<"Grade 1 certified", "Fire rated up to 3 hours", "Dogging function">>,
         door_types |-> <<"commercial", "exterior-entry">>,
         fire_rated |-> TRUE,
         min_door_width |-> 30,
         max_door_width |-> 48,
         price_range |-> "$400-800"]
      >>,
     narrow_stile |-> <<
        [name |-> "9000NS Narrow Stile Exit Device",
         description |-> "Designed for aluminum and glass storefront doors with narrow stile profiles.",
         url |-> "https://www.dormakaba.com/us-en/offering/products/door-hardware/door-hardware-exit-devices",
         model_numbers |-> <<"9100NS", "9200NS">>,
         features |-> <<"Fits 1-3/4\" to 2\" stiles", "Touch bar operation", "Field reversible">>,
         door_types |-> <<"commercial">>,
         has_glass |-> TRUE,
         price_range |-> "$500-900"]
      >>],
   low_energy_operators |-> <<
      [name |-> "ED900 Low Energy Swing Door Operator",
       description |-> "Electromechanical operator for ADA-compliant automatic door opening. Push-and-go activation.",
       url |-> "https://www.dormakaba.com/us-en/offering/products/door-hardware/low-energy-swing-door-operators",
       model_numbers |-> <<"ED900", "ED910", "ED920">>,
       features |-> <<"ADA compliant", "Push-and-go", "Obstacle detection", "Battery backup option">>,
       door_types |-> <<"commercial", "exterior-entry", "interior">>,
       fire_rated |-> TRUE,
       max_door_width |-> 48,
       price_range |-> "$1,500-3,000"],
      [name |-> "ED700 Electrified Door Operator",
       description |-> "Full-featured automatic operator for high-traffic entrances and ADA accessibility.",
       url |-> "https://www.dormakaba.com/us-en/offering/products/door-hardware/low-energy-swing-door-operators",
       model_numbers |-> <<"ED700">>,
       features |-> <<"Touchless activation", "Integration with access control", "Hold-open function">>,
       door_types |-> <<"commercial", "exterior-entry">>,
       price_range |-> "$2,000-4,000"]
    >>,
   fire_life_safety |-> <<
      [name |-> "Electromagnetic Door Holder",
       description |-> "Holds fire doors open and releases on fire alarm signal. Wall or floor mounted options.",
       url |-> "https://www.dormakaba.com/us-en/offering/products/door-hardware/firelife-safety-devices",
       model_numbers |-> <<"EM200", "EM500">>,
       features |-> <<"24V DC operation", "Manual release", "Floor or wall mount">>,
       door_types |-> <<"commercial", "interior">>,
       fire_rated |-> TRUE,
       price_range |-> "$100-300"],
      [name |-> "Closer/Holder Combination",
       description |-> "Combined door closer with electromagnetic hold-open function. Releases on fire alarm.",
       url |-> "https://www.dormakaba.com/us-en/offering/products/door-hardware/firelife-safety-devices",
       model_numbers |-> <<"8916", "8926">>,
       features |-> <<"Integrated closer and holder", "Smoke detector compatible", "Fire rated">>,
       door_types |-> <<"commercial">>,
       fire_rated |-> TRUE,
       price_range |-> "$400-700"]
    >>,
   simplex_locks |-> <<
      [name |-> "Simplex 5000 Series Pushbutton Lock",
       description |-> "Mechanical pushbutton lock requiring no power or batteries. Keyless convenience.",
       url |-> "https://www.dormakaba.com/us-en/offering/products/door-hardware/simplex-mechanical-pushbutton-locks",
       model_numbers |-> <<"5021", "5041", "5051">>,
       features |-> <<"No batteries required", "Up to 1,000 combinations", "Key override option">>,
       door_types |-> <<"interior", "commercial">>,
       price_range |-> "$300-600"],
      [name |-> "Simplex L1000 Series",
       description |-> "Light-duty mechanical pushbutton lock for interior doors with privacy function.",
       url |-> "https://www.dormakaba.com/us-en/offering/products/door-hardware/simplex-mechanical-pushbutton-locks",
       model_numbers |-> <<"L1011", "L1021", "L1031">>,
       features |-> <<"Compact design", "Passage function", "Easy code change">>,
       door_types |-> <<"interior">>,
       price_range |-> "$200-400"]
    >>,
   electronic_access |-> <<
      [name |-> "Kaba E-Plex 5x00 Series",
       description |-> "Electronic pushbutton lock with audit trail capability. Ideal for access control applications.",
       url |-> "https://www.dormakaba.com/us-en/offering/products/electronic-access-data",
       model_numbers |-> <<"E5031", "E5051", "E5071">>,
       features |-> <<"100 user codes", "Audit trail", "Time zone scheduling", "Key override">>,
       door_types |-> <<"interior", "commercial">>,
       price_range |-> "$500-900"],
      [name |-> "Kaba X-10 Standalone Electronic Lock",
       description |-> "Multi-technology reader with keypad. Supports cards, fobs, and PIN codes.",
       url |-> "https://www.dormakaba.com/us-en/offering/products/electronic-access-data",
       model_numbers |-> <<"X-10">>,
       features |-> <<"Multi-credential support", "Weatherproof option", "Audit trail">>,
       door_types |-> <<"exterior-entry", "commercial">>,
       price_range |-> "$800-1,200"]
    >>]

SecLockDistributor_PRODUCTS ==
  [door_closers |-> [lcn |-> <<
        [name |-> "LCN 4040XP Series Heavy Duty Door Closer",
         description |-> "Extra heavy-duty cast iron door closer with adjustable backcheck, sweep speed, and latch speed. Ideal for high-traffic openings.",
         url |-> "https://www.seclock.com/catalog/price-books/lcn",
         model_numbers |-> <<"4040XP", "4040XP-RW/PA", "4040XP-CUSH", "4040XP-EDA">>,
         features |-> <<"Cast iron construction", "Adjustable closing speeds", "Optional hold-open arm", "ADA compliant options">>,
         price_range |-> "$280-$550",
         manufacturer |-> "LCN"],
        [name |-> "LCN 1461 Series Surface Mounted Closer",
         description |-> "Standard duty surface mounted door closer for interior openings. Smooth, quiet operation with full rack-and-pinion design.",
         url |-> "https://www.seclock.com/catalog/price-books/lcn",
         model_numbers |-> <<"1461", "1461T", "1461-H">>,
         features |-> <<"Aluminum body", "Adjustable spring power", "Delayed action available", "Non-handed">>,
         price_range |-> "$150-$280",
         manufacturer |-> "LCN"]
      >>,
     norton |-> <<
        [name |-> "Norton 7500 Series Door Closer",
         description |-> "Architectural grade surface door closer with precision-machined components for reliable, long-lasting performance.",
         url |-> "https://www.seclock.com/catalog/price-books/norton",
         model_numbers |-> <<"7500", "7500H", "7500-689">>,
         features |-> <<"Tri-style mounting", "Full cover included", "Adjustable closing speeds", "10-year warranty">>,
         price_range |-> "$200-$400",
         manufacturer |-> "Norton"]
      >>,
     sargent |-> <<
        [name |-> "Sargent 1431 Series Surface Closer",
         description |-> "Versatile surface-mounted closer designed for high-frequency applications with durable construction.",
         url |-> "https://www.seclock.com/catalog/price-books/sargent",
         model_numbers |-> <<"1431", "1431-CPS", "1431-H">>,
         features |-> <<"Multi-size spring", "Optional PowerGlide arm", "Hold-open available", "Barrier-free option">>,
         price_range |-> "$175-$350",
         manufacturer |-> "Sargent"]
      >>],
   locks |-> [schlage |-> <<
        [name |-> "Schlage ND Series Cylindrical Lock",
         description |-> "Heavy-duty cylindrical lever lock designed for high-traffic commercial applications. BHMA Grade 1 certified.",
         url |-> "https://www.seclock.com/catalog/price-books/schlage",
         model_numbers |-> <<"ND50PD", "ND80PD", "ND53PD", "ND70PD">>,
         features |-> <<"Grade 1 certified", "2M cycle tested", "Vandal resistant", "UL listed for 3-hour fire doors">>,
         price_range |-> "$180-$400",
         manufacturer |-> "Schlage"],
        [name |-> "Schlage L Series Mortise Lock",
         description |-> "Premier mortise lock with modular construction for maximum flexibility and security in institutional and commercial settings.",
         url |-> "https://www.seclock.com/catalog/price-books/schlage",
         model_numbers |-> <<"L9453", "L9456", "L9480", "L9010">>,
         features |-> <<"BHMA Grade 1", "Modular design", "Field reversible", "Anti-friction latchbolt">>,
         price_range |-> "$400-$800",
         manufacturer |-> "Schlage"],
        [name |-> "Schlage ALX Series Cylindrical Lock",
         description |-> "Commercial-grade cylindrical lock with improved security features and modern aesthetics for mid-range applications.",
         url |-> "https://www.seclock.com/catalog/price-books/schlage",
         model_numbers |-> <<"ALX50P", "ALX70P", "ALX80P">>,
         features |-> <<"ANSI/BHMA Grade 2", "Snap-on rose design", "Easy rekeying", "Interchangeable core option">>,
         price_range |-> "$120-$250",
         manufacturer |-> "Schlage"]
      >>,
     corbin_russwin |-> <<
        [name |-> "Corbin Russwin CL3300 Series Cylindrical Lock",
         description |-> "Extra heavy-duty cylindrical lever lock designed for healthcare, education, and high-abuse environments.",
         url |-> "https://www.seclock.com/catalog/price-books/corbin",
         model_numbers |-> <<"CL3351", "CL3357", "CL3355">>,
         features |-> <<"BHMA Grade 1", "Clutching lever", "Anti-microbial option", "6-pin solid brass cylinder">>,
         price_range |-> "$250-$500",
         manufacturer |-> "Corbin Russwin"],
        [name |-> "Corbin Russwin ML2000 Series Mortise Lock",
         description |-> "High-security mortise lock with exceptional durability for demanding commercial and institutional applications.",
         url |-> "https://www.seclock.com/catalog/price-books/corbin",
         model_numbers |-> <<"ML2010", "ML2051", "ML2055", "ML2067">>,
         features |-> <<"BHMA Grade 1", "Modular cylinder design", "Fire rated to 3 hours", "Electrified options">>,
         price_range |-> "$450-$900",
         manufacturer |-> "Corbin Russwin"]
      >>,
     sargent |-> <<
        [name |-> "Sargent 10 Line Cylindrical Lock",
         description |-> "Standard duty bored lock for commercial applications with reliable performance and variety of functions.",
         url |-> "https://www.seclock.com/catalog/price-books/sargent",
         model_numbers |-> <<"10U15", "10U65", "10U94">>,
         features |-> <<"ANSI Grade 1", "6-pin cylinder", "ADA compliant levers", "UL fire rated">>,
         price_range |-> "$200-$380",
         manufacturer |-> "Sargent"],
        [name |-> "Sargent 8200 Series Mortise Lock",
         description |-> "Heavy-duty mortise lock engineered for high-traffic commercial and institutional environments.",
         url |-> "https://www.seclock.com/catalog/price-books/sargent",
         model_numbers |-> <<"8204", "8205", "8265", "8270">>,
         features |-> <<"BHMA Grade 1", "Sectional trim", "Anti-friction bolt", "Optional security rose">>,
         price_range |-> "$400-$750",
         manufacturer |-> "Sargent"]
      >>,
     yale |-> <<
        [name |-> "Yale 8800FL Series Mortise Lock",
         description |-> "Premium mortise lock with electromechanical options for access control integration.",
         url |-> "https://www.seclock.com/catalog/price-books/yale",
         model_numbers |-> <<"8802FL", "8822FL", "8891FL">>,
         features |-> <<"BHMA Grade 1", "Fail-safe/fail-secure options", "Monitoring switches", "Request-to-exit">>,
         price_range |-> "$500-$1200",
         manufacturer |-> "Yale"]
      >>],
   exit_devices |-> [von_duprin |-> <<
        [name |-> "Von Duprin 99 Series Exit Device",
         description |-> "Industry-leading rim exit device for heavy-duty commercial applications. Smooth, quiet operation with maximum security.",
         url |-> "https://www.seclock.com/catalog/price-books/vonduprin",
         model_numbers |-> <<"99L", "99L-06", "99NL", "99EO">>,
         features |-> <<"Hex-key dogging", "LBR option", "UL listed", "Fire exit hardware">>,
         price_range |-> "$450-$900",
         manufacturer |-> "Von Duprin"],
        [name |-> "Von Duprin 98/99 Series Vertical Rod",
         description |-> "Heavy-duty vertical rod exit device for double doors requiring top and bottom latching.",
         url |-> "https://www.seclock.com/catalog/price-books/vonduprin",
         model_numbers |-> <<"9827", "9927", "9847", "9947">>,
         features |-> <<"Less bottom rod option", "Concealed vertical rod", "Fire rated", "Electric options">>,
         price_range |-> "$800-$1500",
         manufacturer |-> "Von Duprin"]
      >>,
     falcon |-> <<
        [name |-> "Falcon 24/25 Series Exit Device",
         description |-> "Heavy-duty wide stile exit device with smooth touchbar operation and durable construction.",
         url |-> "https://www.seclock.com/catalog/price-books/falcon",
         model_numbers |-> <<"24-R-EO", "25-R-EO", "24-V-EO">>,
         features |-> <<"Non-handed", "UL listed", "Modular design", "Electric latch retraction">>,
         price_range |-> "$380-$750",
         manufacturer |-> "Falcon"]
      >>,
     sargent |-> <<
        [name |-> "Sargent 80 Series Exit Device",
         description |-> "Premium exit device with patented Powerglide mechanism for smooth, quiet operation under heavy use.",
         url |-> "https://www.seclock.com/catalog/price-books/sargent",
         model_numbers |-> <<"8804", "8810", "8813", "8888">>,
         features |-> <<"Powerglide mechanism", "Modular design", "Delayed egress option", "Heavy-duty construction">>,
         price_range |-> "$500-$1000",
         manufacturer |-> "Sargent"]
      >>,
     detex |-> <<
        [name |-> "Detex ECL-230X Exit Control Lock",
         description |-> "Battery-powered alarmed exit device for emergency exits that require security monitoring.",
         url |-> "https://www.seclock.com/catalog/price-books/detex",
         model_numbers |-> <<"ECL-230X", "ECL-230X-W">>,
         features |-> <<"95dB alarm", "Battery powered", "LED status indicator", "Delayed egress option">>,
         price_range |-> "$350-$600",
         manufacturer |-> "Detex"]
      >>],
   hinges |-> [mckinney |-> <<
        [name |-> "McKinney TA2714 Heavy Weight Hinge",
         description |-> "Five-knuckle architectural hinge designed for heavy doors in high-frequency applications.",
         url |-> "https://www.seclock.com/catalog/price-books/mckinney",
         model_numbers |-> <<"TA2714", "TA2714-4.5x4.5", "TA2714-5x5">>,
         features |-> <<"Heavy weight bearing", "Non-removable pin option", "Ball bearing", "NRP available">>,
         price_range |-> "$25-$60 each",
         manufacturer |-> "McKinney"],
        [name |-> "McKinney T4A3786 Electric Hinge",
         description |-> "Electrified hinge for transferring power to door-mounted hardware without surface wiring.",
         url |-> "https://www.seclock.com/catalog/price-books/mckinney",
         model_numbers |-> <<"T4A3786", "T4A3386">>,
         features |-> <<"Concealed wiring", "Multiple wire options", "Fire rated", "Ball bearing">>,
         price_range |-> "$120-$250 each",
         manufacturer |-> "McKinney"]
      >>,
     hager |-> <<
        [name |-> "Hager BB1279 Full Mortise Hinge",
         description |-> "Standard weight ball bearing hinge for commercial interior doors with high cycle life.",
         url |-> "https://www.seclock.com/catalog/price-books/hager",
         model_numbers |-> <<"BB1279", "BB1279-4.5x4.5">>,
         features |-> <<"Ball bearing", "Template production", "Multiple finishes", "Lifetime warranty">>,
         price_range |-> "$15-$40 each",
         manufacturer |-> "Hager"]
      >>,
     ives |-> <<
        [name |-> "Ives 5BB1 Ball Bearing Hinge",
         description |-> "Five-knuckle ball bearing hinge for standard commercial applications with reliable performance.",
         url |-> "https://www.seclock.com/catalog/price-books/ives",
         model_numbers |-> <<"5BB1", "5BB1-4.5x4.5", "5BB1HW">>,
         features |-> <<"Ball bearing", "Template drilled", "Steel or stainless", "NRP option">>,
         price_range |-> "$18-$45 each",
         manufacturer |-> "Ives"]
      >>],
   electronic_access |-> [hes |-> <<
        [name |-> "HES 1006 Electric Strike",
         description |-> "Heavy-duty electric strike for cylindrical locksets with adjustable keeper for precise fit.",
         url |-> "https://www.seclock.com/catalog/price-books/hes",
         model_numbers |-> <<"1006", "1006-12/24D-630", "1006CLB">>,
         features |-> <<"Fail-safe/fail-secure", "Adjustable keeper", "Dual voltage", "Latchbolt monitor">>,
         price_range |-> "$150-$350",
         manufacturer |-> "HES"],
        [name |-> "HES 9600 Series Electric Strike",
         description |-> "Surface-mounted electric strike for rim exit devices with rugged construction.",
         url |-> "https://www.seclock.com/catalog/price-books/hes",
         model_numbers |-> <<"9600", "9600-12/24D-630">>,
         features |-> <<"Surface mounted", "1500 lb holding force", "Dual voltage", "Fire rated">>,
         price_range |-> "$200-$400",
         manufacturer |-> "HES"]
      >>,
     securitron |-> <<
        [name |-> "Securitron M62 Magnalock",
         description |-> "Heavy-duty electromagnetic lock with 1200 lb holding force for high-security applications.",
         url |-> "https://www.seclock.com/catalog/price-books/securitron",
         model_numbers |-> <<"M62", "M62D", "M62DGB">>,
         features |-> <<"1200 lb holding force", "LED status indicator", "Bond sensor option", "UL294 listed">>,
         price_range |-> "$250-$450",
         manufacturer |-> "Securitron"]
      >>,
     alarm_lock |-> <<
        [name |-> "Alarm Lock Trilogy T2 Digital Lock",
         description |-> "Standalone digital keypad lock with audit trail and multiple user codes.",
         url |-> "https://www.seclock.com/catalog/price-books/alarmlock",
         model_numbers |-> <<"DL2700", "DL2800", "DL3000">>,
         features |-> <<"100 user codes", "Audit trail", "Weatherproof option", "BHMA Grade 1">>,
         price_range |-> "$400-$700",
         manufacturer |-> "Alarm Lock"]
      >>,
     schlage_electronics |-> <<
        [name |-> "Schlage CO-100 Cylindrical Electronic Lock",
         description |-> "Battery-powered standalone access control lock with keypad or card reader options.",
         url |-> "https://www.seclock.com/catalog/price-books/schlageele",
         model_numbers |-> <<"CO-100", "CO-200", "CO-250">>,
         features |-> <<"Standalone or networked", "Up to 500 users", "Audit trail", "BHMA Grade 1">>,
         price_range |-> "$500-$1000",
         manufacturer |-> "Schlage Electronics"]
      >>],
   deadbolts |-> [schlage |-> <<
        [name |-> "Schlage B Series Commercial Deadbolt",
         description |-> "Heavy-duty commercial deadbolt with Grade 1 security for maximum protection.",
         url |-> "https://www.seclock.com/catalog/price-books/schlage",
         model_numbers |-> <<"B560P", "B562P", "B563P", "B580P">>,
         features |-> <<"ANSI Grade 1", "1\" throw bolt", "Anti-saw pins", "Hardened steel insert">>,
         price_range |-> "$100-$250",
         manufacturer |-> "Schlage"]
      >>,
     medeco |-> <<
        [name |-> "Medeco Maxum Commercial Deadbolt",
         description |-> "High-security deadbolt with patented key control and pick-resistant design.",
         url |-> "https://www.seclock.com/catalog/price-books/medeco",
         model_numbers |-> <<"11-0102", "11-0202", "11-0602">>,
         features |-> <<"UL437 listed", "Bump resistant", "Drill resistant", "Patented key control">>,
         price_range |-> "$350-$600",
         manufacturer |-> "Medeco"]
      >>],
   door_accessories |-> [don_jo |-> <<
        [name |-> "Don-Jo Wrap Around Plate",
         description |-> "Door reinforcement plate to protect and strengthen lock installation area.",
         url |-> "https://www.seclock.com/catalog/price-books/donjo",
         model_numbers |-> <<"504-CW", "504-S-CW", "942-CW">>,
         features |-> <<"Steel construction", "Multiple finishes", "Easy installation", "Custom sizes">>,
         price_range |-> "$25-$80",
         manufacturer |-> "Don-Jo"],
        [name |-> "Don-Jo Latch Protector",
         description |-> "Security plate to prevent forced entry through latch manipulation.",
         url |-> "https://www.seclock.com/catalog/price-books/donjo",
         model_numbers |-> <<"LP-107", "LP-207", "OSLP-107">>,
         features |-> <<"14 gauge steel", "Pin and barrel hinge protection", "Multiple sizes", "Stainless available">>,
         price_range |-> "$20-$60",
         manufacturer |-> "Don-Jo"]
      >>,
     rockwood |-> <<
        [name |-> "Rockwood 85 Push/Pull Plate",
         description |-> "Architectural push and pull plates for commercial door aesthetics and protection.",
         url |-> "https://www.seclock.com/catalog/price-books/rockwood",
         model_numbers |-> <<"85", "85-4x16", "85-6x16">>,
         features |-> <<"Multiple materials", "Custom sizing", "Beveled edges", "Fastener concealment">>,
         price_range |-> "$40-$150",
         manufacturer |-> "Rockwood"],
        [name |-> "Rockwood RM3 Door Stop",
         description |-> "Heavy-duty floor-mounted door stop with solid construction.",
         url |-> "https://www.seclock.com/catalog/price-books/rockwood",
         model_numbers |-> <<"RM3", "RM3-HT", "RM2">>,
         features |-> <<"Cast brass/bronze", "Concealed mounting", "Rubber bumper", "Multiple finishes">>,
         price_range |-> "$15-$50",
         manufacturer |-> "Rockwood"]
      >>,
     ives |-> <<
        [name |-> "Ives FB61 Flush Bolt",
         description |-> "Automatic flush bolt for securing inactive leaf of double doors.",
         url |-> "https://www.seclock.com/catalog/price-books/ives",
         model_numbers |-> <<"FB61", "FB61P", "FB61T">>,
         features |-> <<"Automatic operation", "UL listed", "Fire rated", "Concealed design">>,
         price_range |-> "$80-$200",
         manufacturer |-> "Ives"]
      >>],
   fire_safety |-> [lcn |-> <<
        [name |-> "LCN 4640 Series Electromagnetic Holder",
         description |-> "Fire-rated electromagnetic door holder with wall or floor mounting options.",
         url |-> "https://www.seclock.com/catalog/price-books/lcn",
         model_numbers |-> <<"4640", "4640-3049">>,
         features |-> <<"UL/cUL listed", "25-35 lb holding force", "Wall or floor mount", "Releases on alarm">>,
         price_range |-> "$100-$200",
         manufacturer |-> "LCN"]
      >>,
     norton |-> <<
        [name |-> "Norton 6000 Series Fire Door Holder",
         description |-> "Electromagnetic hold-open device for fire door applications with reliable release.",
         url |-> "https://www.seclock.com/catalog/price-books/norton",
         model_numbers |-> <<"6000", "6000-689">>,
         features |-> <<"UL listed", "Tie-in to fire alarm", "Adjustable holding force", "Surface mount">>,
         price_range |-> "$90-$180",
         manufacturer |-> "Norton"]
      >>],
   weatherstripping |-> [pemko |-> <<
        [name |-> "Pemko S88 Door Bottom Seal",
         description |-> "Heavy-duty aluminum door bottom with silicone seal for weather and sound protection.",
         url |-> "https://www.seclock.com/catalog/price-books/pemko",
         model_numbers |-> <<"S88D", "S88BL", "S88SL">>,
         features |-> <<"Silicone insert", "Aluminum housing", "Easy installation", "Sound reduction">>,
         price_range |-> "$30-$80",
         manufacturer |-> "Pemko"],
        [name |-> "Pemko 303 Threshold",
         description |-> "Aluminum saddle threshold for commercial door openings.",
         url |-> "https://www.seclock.com/catalog/price-books/pemko",
         model_numbers |-> <<"303AS", "303AV", "303ANB">>,
         features |-> <<"Aluminum construction", "ADA compliant heights", "Thermal break option", "Multiple widths">>,
         price_range |-> "$25-$100",
         manufacturer |-> "Pemko"]
      >>,
     ngp |-> <<
        [name |-> "NGP Door Smoke Seal",
         description |-> "Intumescent smoke seal for fire-rated door assemblies.",
         url |-> "https://www.seclock.com/catalog/price-books/ngp",
         model_numbers |-> <<"970", "970N">>,
         features |-> <<"UL listed", "Expands with heat", "Smoke and draft seal", "Meets positive pressure">>,
         price_range |-> "$20-$60",
         manufacturer |-> "NGP"]
      >>],
   auto_operators |-> [lcn |-> <<
        [name |-> "LCN 4640 SENIOR SWING Low Energy Operator",
         description |-> "ADA-compliant low energy automatic door operator for accessibility applications.",
         url |-> "https://www.seclock.com/catalog/price-books/lcn",
         model_numbers |-> <<"4640-3049T", "4640-3077T">>,
         features |-> <<"ADA compliant", "Low energy operation", "Push button activation", "Safety sensors">>,
         price_range |-> "$1500-$2500",
         manufacturer |-> "LCN"]
      >>,
     norton |-> <<
        [name |-> "Norton 5600 ADAEZ PRO Operator",
         description |-> "Integrated automatic door operator designed for ADA accessibility retrofits.",
         url |-> "https://www.seclock.com/catalog/price-books/norton",
         model_numbers |-> <<"5600", "5610", "5620">>,
         features |-> <<"Easy retrofit", "No header needed", "ADA compliant", "Power open/close">>,
         price_range |-> "$1800-$3000",
         manufacturer |-> "Norton"]
      >>],
   cylinders |-> [medeco |-> <<
        [name |-> "Medeco M3 High Security Cylinder",
         description |-> "Patented high-security cylinder with anti-pick, anti-drill, and bump-resistant features.",
         url |-> "https://www.seclock.com/catalog/price-books/medeco",
         model_numbers |-> <<"20-0100", "20-0200", "20-0300">>,
         features |-> <<"UL437 listed", "Key control", "Bump resistant", "Retrofit compatible">>,
         price_range |-> "$100-$250",
         manufacturer |-> "Medeco"]
      >>,
     best |-> <<
        [name |-> "BEST 1E Series Interchangeable Core",
         description |-> "Small format interchangeable core cylinder for easy rekeying without removing hardware.",
         url |-> "https://www.seclock.com/catalog/price-books/best",
         model_numbers |-> <<"1E74", "1E76", "1E7">>,
         features |-> <<"Tool-free removal", "6 or 7 pin options", "Master keying", "High security options">>,
         price_range |-> "$40-$120",
         manufacturer |-> "BEST"]
      >>]]

AssaAbloyDSSDistributor_PRODUCTS ==
  [hollow_metal_doors |-> [ceco |-> <<
        [name |-> "Ceco Standard Steel Door",
         description |-> "Strong and secure steel doors designed to meet a full range of safety, security, and aesthetic requirements. Available in various gauges and configurations.",
         url |-> "https://www.cecodoor.com/en/products/",
         model_numbers |-> <<"Series 18", "Series 16", "Series 14">>,
         features |-> <<"18, 16, or 14 gauge steel", "Flush or embossed face", "Fire rated options", "Multiple core options">>,
         price_range |-> "$350-$800",
         manufacturer |-> "Ceco Door"],
        [name |-> "Ceco Fire-Rated Steel Door",
         description |-> "UL labeled fire-rated hollow metal doors for commercial and industrial applications requiring fire protection up to 3 hours.",
         url |-> "https://www.cecodoor.com/en/products/",
         model_numbers |-> <<"FR-20", "FR-45", "FR-60", "FR-90", "FR-180">>,
         features |-> <<"20-minute to 3-hour ratings", "Positive pressure tested", "Temperature rise options", "Smoke and draft control">>,
         price_range |-> "$500-$1,500",
         manufacturer |-> "Ceco Door"]
      >>,
     curries |-> <<
        [name |-> "Curries Commercial Steel Door",
         description |-> "Full line of custom and standard hollow metal doors for new and retrofit construction projects. Ideal for healthcare, commercial, and educational markets.",
         url |-> "https://www.curries.com/en/products/",
         model_numbers |-> <<"707", "747", "757", "767">>,
         features |-> <<"Custom sizes available", "Multiple gauge options", "Insulated core options", "Sound dampening">>,
         price_range |-> "$400-$900",
         manufacturer |-> "Curries"],
        [name |-> "Curries Stile & Rail Door",
         description |-> "Architectural stile and rail doors with glass lite options for aesthetically demanding applications.",
         url |-> "https://www.curries.com/en/products/",
         model_numbers |-> <<"SR-1", "SR-2", "SR-3">>,
         features |-> <<"Glass lite options", "Architectural finishes", "Vision panel configurations", "ADA compliant">>,
         price_range |-> "$600-$1,400",
         manufacturer |-> "Curries"]
      >>,
     baron |-> <<
        [name |-> "Baron Embossed Steel Door",
         description |-> "Embossed or standard hollow metal doors in 14-, 16-, 18- and 20-gauge options for commercial applications.",
         url |-> "https://www.baronmetal.com/en/products/",
         model_numbers |-> <<"BE-18", "BE-16", "BE-14", "BS-18">>,
         features |-> <<"Embossed or smooth face", "Multiple gauges", "Honeycomb or polystyrene core", "Primed finish">>,
         price_range |-> "$300-$700",
         manufacturer |-> "Baron"]
      >>,
     rite_door |-> <<
        [name |-> "RITE Door Designer Series",
         description |-> "Unique aesthetic door finishes and designer options with preassembled hardware devices for upscale commercial applications.",
         url |-> "https://www.ritedoor.com/en/",
         model_numbers |-> <<"RD-100", "RD-200", "RD-300">>,
         features |-> <<"Wood grain finishes", "Stainless steel options", "Factory-installed hardware", "Custom colors">>,
         price_range |-> "$800-$2,000",
         manufacturer |-> "RITE Door"]
      >>],
   hollow_metal_frames |-> [ceco |-> <<
        [name |-> "Ceco Welded Frame",
         description |-> "Heavy-duty welded hollow metal frames for masonry or drywall construction. Superior strength for commercial applications.",
         url |-> "https://www.cecodoor.com/en/products/",
         model_numbers |-> <<"WF-16", "WF-14", "WF-12">>,
         features |-> <<"Welded corners", "16, 14, or 12 gauge", "Masonry or drywall anchors", "Multiple throat sizes">>,
         price_range |-> "$200-$500",
         manufacturer |-> "Ceco Door"],
        [name |-> "Ceco Knock-Down Frame",
         description |-> "Field-assembled knocked down frames for easy shipping and installation in retrofit applications.",
         url |-> "https://www.cecodoor.com/en/products/",
         model_numbers |-> <<"KD-16", "KD-14">>,
         features |-> <<"Easy field assembly", "No welding required", "Adjustable for out-of-square openings", "Standard or fire rated">>,
         price_range |-> "$150-$350",
         manufacturer |-> "Ceco Door"]
      >>,
     curries |-> <<
        [name |-> "Curries Drywall Frame",
         description |-> "Hollow metal frames designed specifically for drywall construction with concealed anchoring systems.",
         url |-> "https://www.curries.com/en/products/",
         model_numbers |-> <<"DW-S", "DW-D", "DW-B">>,
         features |-> <<"Drywall anchor system", "Single or double rabbet", "Adjustable base anchors", "Fire rated options">>,
         price_range |-> "$175-$400",
         manufacturer |-> "Curries"]
      >>,
     baron |-> <<
        [name |-> "Baron Masonry Frame",
         description |-> "14-, 16- and 18-gauge masonry or drywall frames for standard commercial door openings.",
         url |-> "https://www.baronmetal.com/en/products/",
         model_numbers |-> <<"MF-16", "MF-14", "MF-18">>,
         features |-> <<"Masonry anchors included", "Multiple gauges", "Standard throat sizes", "Primed finish">>,
         price_range |-> "$150-$350",
         manufacturer |-> "Baron"]
      >>],
   specialty_doors |-> [acoustical |-> <<
        [name |-> "Acoustical Door Opening - STC Rated",
         description |-> "STC-rated doors for offices, schools, hotels, and anywhere noise transference could be problematic. Available in various STC ratings.",
         url |-> "https://www.assaabloydss.com/en/products/doors-and-frames/specialty-doors/product-details.aehpdp-acoustical-openings-dss_assa_abloy_dss_99370",
         model_numbers |-> <<"STC-35", "STC-40", "STC-45", "STC-50">>,
         features |-> <<"STC ratings 35-55", "Gasketed perimeter", "Automatic door bottom", "Vision panel options">>,
         price_range |-> "$1,500-$4,000",
         manufacturer |-> "ASSA ABLOY DSS"]
      >>,
     bullet_resistant |-> <<
        [name |-> "Bullet Resistant Door Opening",
         description |-> "Multiple levels of protection against ballistic threats, tested and certified to strict UL 752 standards.",
         url |-> "https://www.assaabloydss.com/en/products/doors-and-frames/specialty-doors/product-details.aehpdp-bullet-resistant-openings-dss_assa_abloy_dss_99369",
         model_numbers |-> <<"BR-1", "BR-3", "BR-4", "BR-8">>,
         features |-> <<"UL 752 Levels 1-8", "Steel and composite construction", "Matching bullet-resistant frames", "Vision panel options">>,
         price_range |-> "$3,000-$15,000",
         manufacturer |-> "ASSA ABLOY DSS"]
      >>,
     blast_resistant |-> <<
        [name |-> "Blast Resistant Door Opening",
         description |-> "Protection against explosions and excessive force. Designed for critical infrastructure and government facilities.",
         url |-> "https://www.assaabloydss.com/en/products/doors-and-frames/specialty-doors/product-details.aehpdp-blast-resistant-openings-dss_assa_abloy_dss_227316",
         model_numbers |-> <<"BR-GSA", "BR-DOD", "BR-ISC">>,
         features |-> <<"GSA/ISC compliant", "DoD certified", "Blast tested", "Hazard mitigation">>,
         price_range |-> "$5,000-$25,000",
         manufacturer |-> "ASSA ABLOY DSS"]
      >>,
     hurricane_resistant |-> <<
        [name |-> "Hurricane Resistant Door Opening",
         description |-> "Essential in storm zones, ensuring safety and property protection. Florida Building Code and Miami-Dade approved.",
         url |-> "https://www.assaabloydss.com/en/products/doors-and-frames/specialty-doors/product-details.aehpdp-hurricane-resistant-openings-dss_assa_abloy_dss_227321",
         model_numbers |-> <<"HC-S", "HC-M", "HC-L">>,
         features |-> <<"Florida Building Code approved", "Miami-Dade NOA", "Large/small missile impact", "HVHZ rated">>,
         price_range |-> "$2,000-$8,000",
         manufacturer |-> "ASSA ABLOY DSS"],
        [name |-> "StormPro Hurricane and Tornado Resistant Opening",
         description |-> "Designed to protect against missile penetration from wind-borne debris for hurricane and tornado shelters.",
         url |-> "https://www.assaabloydss.com/en/products/doors-and-frames/specialty-doors/product-details.aehpdp-stormpro-hurricane-and-tornado-resistant-openings-dss_assa_abloy_dss_824814",
         model_numbers |-> <<"SP-FEMA", "SP-ICC">>,
         features |-> <<"FEMA P-361 compliant", "ICC 500 certified", "EF5 tornado rated", "Shelter door approved">>,
         price_range |-> "$4,000-$12,000",
         manufacturer |-> "ASSA ABLOY DSS"]
      >>,
     attack_resistant |-> <<
        [name |-> "Attack Resistant Door Opening",
         description |-> "Forced entry resistant openings that prioritize safety and security with cutting-edge materials.",
         url |-> "https://www.assaabloydss.com/en/products/doors-and-frames/specialty-doors/product-details.aehpdp-attack-resistant-openings-dss_assa_abloy_dss_227315",
         model_numbers |-> <<"FE-5", "FE-10", "FE-15">>,
         features |-> <<"Forced entry rated", "5-15 minute attack ratings", "Reinforced construction", "High-security hardware">>,
         price_range |-> "$2,500-$10,000",
         manufacturer |-> "ASSA ABLOY DSS"],
        [name |-> "Forced Entry Bullet Resistant Opening",
         description |-> "Combines ballistic and forced-entry resistance with cutting-edge materials for unparalleled protection.",
         url |-> "https://www.assaabloydss.com/en/products/doors-and-frames/specialty-doors/product-details.aehpdp-forced-entry-bullet-resistant-openings-dss_assa_abloy_dss_227320",
         model_numbers |-> <<"FEBR-3", "FEBR-5", "FEBR-8">>,
         features |-> <<"Combined FE + BR rating", "UL 752 ballistic", "ASTM forced entry", "Embassy-grade protection">>,
         price_range |-> "$8,000-$30,000",
         manufacturer |-> "ASSA ABLOY DSS"]
      >>,
     flood_resistant |-> <<
        [name |-> "Flood Resistant Door Opening",
         description |-> "Specially designed doorways that keep out water up to a depth of 36 inches for flood-prone facilities.",
         url |-> "https://www.assaabloydss.com/en/products/doors-and-frames/specialty-doors/product-details.aehpdp-flood-resistant-openings-dss_assa_abloy_dss_227319",
         model_numbers |-> <<"FL-24", "FL-36">>,
         features |-> <<"24\" or 36\" water depth", "FM Approved", "Watertight gaskets", "Manual or automatic">>,
         price_range |-> "$3,000-$8,000",
         manufacturer |-> "ASSA ABLOY DSS"]
      >>,
     lead_lined |-> <<
        [name |-> "Lead-Lined Door Opening",
         description |-> "High-quality lead-lined door openings for radiation protection in medical and industrial applications.",
         url |-> "https://www.assaabloydss.com/en/products/doors-and-frames/specialty-doors/product-details.aehpdp-lead-lined-openings-dss_assa_abloy_dss_227322",
         model_numbers |-> <<"LL-1/16", "LL-1/8", "LL-1/4">>,
         features |-> <<"1/16\" to 1/2\" lead equivalent", "Radiation shielding", "Healthcare compliant", "X-ray room rated">>,
         price_range |-> "$2,000-$6,000",
         manufacturer |-> "ASSA ABLOY DSS"]
      >>,
     stainless_steel |-> <<
        [name |-> "Stainless Steel Door Opening",
         description |-> "Sleek stainless steel doors and frames offering corrosion resistance and enhanced aesthetic appeal.",
         url |-> "https://www.assaabloydss.com/en/products/doors-and-frames/specialty-doors/product-details.aehpdp-stainless-steel-openings-dss_assa_abloy_dss_223738",
         model_numbers |-> <<"SS-304", "SS-316">>,
         features |-> <<"304 or 316 stainless", "Corrosion resistant", "Hygienic", "Multiple finishes">>,
         price_range |-> "$1,500-$4,500",
         manufacturer |-> "ASSA ABLOY DSS"]
      >>,
     emi_rfi_shielding |-> <<
        [name |-> "EMI-RFI/STC Shielding Door Assembly",
         description |-> "Protects sensitive communications and electronics from electromagnetic interference. For data centers, SCIF, and military applications.",
         url |-> "https://www.assaabloydss.com/en/products/doors-and-frames/specialty-doors/product-details.aehpdp-emi-rfistc-shielding-assembly-with-split-frame-and-adjustable-seals-dss_assa_abloy_dss_959145",
         model_numbers |-> <<"EMI-40", "EMI-60", "EMI-100">>,
         features |-> <<"40-100 dB shielding", "TEMPEST compliant", "SCIF requirements", "Combined STC rating">>,
         price_range |-> "$8,000-$25,000",
         manufacturer |-> "ASSA ABLOY DSS"]
      >>,
     water_resistant |-> <<
        [name |-> "Water Resistant Door Opening",
         description |-> "Sanitary and watertight solution for clean rooms, laboratories, or chemical storage areas.",
         url |-> "https://www.assaabloydss.com/en/products/doors-and-frames/specialty-doors/product-details.aehpdp-water-resistant-openings-dss_assa_abloy_dss_227324",
         model_numbers |-> <<"WR-S", "WR-L">>,
         features |-> <<"Watertight seal", "Cleanroom compatible", "Chemical resistant", "Stainless steel option">>,
         price_range |-> "$2,500-$6,000",
         manufacturer |-> "ASSA ABLOY DSS"]
      >>]]
----------------------------------------------------------------------------
(* ProductRecommendation *)

\* contents of a catalog list object: its literal unless it was written
ListOf(vendor, product, field) ==
  IF <<vendor, product.name, field>> \in DOMAIN heap
  THEN heap[<<vendor, product.name, field>>]
  ELSE IF field \in DOMAIN product THEN product[field] ELSE <<>>

\* ProductRecommendation.__init__ with the arguments the distributors pass
ProductRecommendation(name, category, description, url, model_numbers, features, price_range, distributor) ==
  [name |-> name,
   category |-> category,
   description |-> description,
   url |-> url,
   image_url |-> PyNone,
   model_numbers |-> IF Len(model_numbers) > 0 THEN model_numbers ELSE <<>>,
   features |-> IF Len(features) > 0 THEN features ELSE <<>>,
   specs_match |-> <<>>,
   price_range |-> price_range,
   distributor |-> distributor]

ProductRecommendation_to_dict_brief(r) ==
  [name |-> r.name,
   category |-> r.category,
   description |-> r.description,
   url |-> r.url,
   distributor |-> r.distributor]
\* ProductRecommendation.to_dict
ProductRecommendation_to_dict(r) ==
  [name |-> r.name,
   category |-> r.category,
   description |-> r.description,
   url |-> r.url,
   image_url |-> r.image_url,
   model_numbers |-> r.model_numbers,
   features |-> r.features,
   specs_match |-> r.specs_match,
   price_range |-> r.price_range,
   distributor |-> r.distributor]

----------------------------------------------------------------------------
(* DormakabaDistributor *)

DormakabaDistributor_name == "Dormakaba"

DormakabaDistributor_create_recommendation(product, category) ==
  ProductRecommendation(product.name, category, product.description, product.url,
                        ListOf("dormakaba", product, "model_numbers"),
                        ListOf("dormakaba", product, "features"),
                        Get(product, "price_range", PyNone),
                        DormakabaDistributor_name)

\* recommendations.append(self._create_recommendation(p, category)) for p in products
DormakabaEmit(products, category) ==
  [i \in 1..Len(products) |->
     DormakabaDistributor_create_recommendation(products[i], category)]

\* hardware_list = [h.lower() for h in specs.get('hardware', [])]
DormakabaHardwareList(specs_) ==
  LET hardware == Get(specs_, "hardware", PyList(<<>>))
  IN  IF hardware.type = "list"
      THEN Ok([i \in 1..Len(hardware.val) |-> Lower(hardware.val[i])])
      ELSE Raise("TypeError")

\* Door Closers rule
DormakabaClosersAnd(hardware_list, is_commercial, width) ==
  LET closers == DormakabaDistributor_PRODUCTS.door_closers
  IN  IF InList("doorcloser", hardware_list) /\ is_commercial
      THEN Ok(DormakabaEmit(Slice(closers.concealed, 0, 1), "Door Closers"))
      ELSE Ok(<<>>)
DormakabaClosers(hardware_list, is_commercial, width) ==
  LET closers == DormakabaDistributor_PRODUCTS.door_closers
      surface ==
        IF ~is_commercial THEN Ok(<<>>)
        ELSE IF Len(closers.surface_mounted) > 0 /\ ~IsNumber(width) THEN Raise("TypeError")
        ELSE Ok(DormakabaEmit(
                  SelectSeq(closers.surface_mounted,
                            LAMBDA c : width.val <= Get(c, "max_door_width", 48)),
                  "Door Closers"))
  IN  IF InList("doorcloser", hardware_list) \/ is_commercial
      THEN Then(surface, Ok(DormakabaEmit(Slice(closers.concealed, 0, 1), "Door Closers")))
      ELSE Ok(<<>>)

\* Mechanical Locks rule
DormakabaLocks(hardware_list, is_commercial, prep_type) ==
  LET locks == DormakabaDistributor_PRODUCTS.mechanical_locks
      mortise ==
        IF prep_type = PyStr("mortise") \/ is_commercial
        THEN DormakabaEmit(locks.mortise, "Mechanical Locks")
        ELSE <<>>
  IN  IF InList("lockset", hardware_list) \/ InList("handle", hardware_list)
      THEN Ok(mortise \o DormakabaEmit(locks.cylindrical, "Mechanical Locks"))
      ELSE Ok(<<>>)

DormakabaDeadboltsPerToken(hardware_list) ==
  LET times == Cardinality({i \in 1..Len(hardware_list) : hardware_list[i] = "deadbolt"})
      emitted == DormakabaEmit(DormakabaDistributor_PRODUCTS.mechanical_locks.deadbolt,
                               "Mechanical Locks")
  IN  Ok([i \in 1..(times * Len(emitted)) |-> emitted[((i - 1) % Len(emitted)) + 1]])
\* Deadbolts rule
DormakabaDeadbolts(hardware_list) ==
  IF InList("deadbolt", hardware_list)
  THEN Ok(DormakabaEmit(DormakabaDistributor_PRODUCTS.mechanical_locks.deadbolt, "Mechanical Locks"))
  ELSE Ok(<<>>)

\* Exit Devices rule
DormakabaExitDevicesBoth(door_type, has_glass, width) ==
  LET exits == DormakabaDistributor_PRODUCTS.exit_devices
  IN  IF door_type = PyStr("commercial")
      THEN Ok((IF Truthy(has_glass)
               THEN DormakabaEmit(exits.narrow_stile, "Exit Devices") ELSE <<>>)
              \o DormakabaEmit(
                   SelectSeq(exits.rim,
                             LAMBDA d : /\ width.val >= Get(d, "min_door_width", 30)
                                        /\ width.val <= Get(d, "max_door_width", 48)),
                   "Exit Devices"))
      ELSE Ok(<<>>)
DormakabaExitDevicesAnyWidth(door_type, has_glass, width) ==
  LET exits == DormakabaDistributor_PRODUCTS.exit_devices
  IN  IF door_type \in {PyStr("commercial"), PyStr("exterior-entry")}
      THEN IF Truthy(has_glass)
           THEN Ok(DormakabaEmit(exits.narrow_stile, "Exit Devices"))
           ELSE Ok(DormakabaEmit(
                     SelectSeq(exits.rim,
                               LAMBDA d : /\ width.val >= Get(d, "min_door_width", 30)
                                          /\ width.val <= Get(d, "max_door_width", 48)),
                     "Exit Devices"))
      ELSE Ok(<<>>)
DormakabaExitDevicesStrict(door_type, has_glass, width) ==
  LET exits == DormakabaDistributor_PRODUCTS.exit_devices
      devices ==
        IF Truthy(has_glass)
        THEN Ok(DormakabaEmit(exits.narrow_stile, "Exit Devices"))
        ELSE Ok(DormakabaEmit(
                  SelectSeq(exits.rim,
                            LAMBDA d : /\ width.val > Get(d, "min_door_width", 30)
                                       /\ width.val < Get(d, "max_door_width", 48)),
                  "Exit Devices"))
  IN  IF door_type = PyStr("commercial") THEN devices
      ELSE IF door_type = PyStr("exterior-entry") /\ width.val >= 30 THEN devices
      ELSE Ok(<<>>)
DormakabaExitDevices(door_type, has_glass, width) ==
  LET exits == DormakabaDistributor_PRODUCTS.exit_devices
      devices ==
        IF Truthy(has_glass)
        THEN Ok(DormakabaEmit(exits.narrow_stile, "Exit Devices"))
        ELSE IF Len(exits.rim) > 0 /\ ~IsNumber(width) THEN Raise("TypeError")
        ELSE Ok(DormakabaEmit(
                  SelectSeq(exits.rim,
                            LAMBDA d : /\ width.val >= Get(d, "min_door_width", 30)
                                       /\ width.val <= Get(d, "max_door_width", 48)),
                  "Exit Devices"))
  IN  IF door_type = PyStr("commercial") THEN devices
      ELSE IF door_type # PyStr("exterior-entry") THEN Ok(<<>>)
      ELSE IF ~IsNumber(width) THEN Raise("TypeError")
      ELSE IF width.val >= 30 THEN devices
      ELSE Ok(<<>>)

\* Low Energy Operators rule
DormakabaOperators(door_type) ==
  IF door_type \in {PyStr("commercial"), PyStr("exterior-entry")}
  THEN Ok(DormakabaEmit(DormakabaDistributor_PRODUCTS.low_energy_operators, "Door Operators"))
  ELSE Ok(<<>>)

\* Fire/Life Safety rule
DormakabaFireLifeSafety(is_fire_rated) ==
  IF is_fire_rated
  THEN Ok(DormakabaEmit(DormakabaDistributor_PRODUCTS.fire_life_safety, "Fire/Life Safety"))
  ELSE Ok(<<>>)

\* Simplex/Electronic Locks rule
DormakabaKeyless(door_type) ==
  IF door_type \in {PyStr("commercial"), PyStr("interior")}
  THEN Ok(DormakabaEmit(Slice(DormakabaDistributor_PRODUCTS.simplex_locks, 0, 1), "Keyless Entry")
          \o DormakabaEmit(Slice(DormakabaDistributor_PRODUCTS.electronic_access, 0, 1),
                           "Electronic Access"))
  ELSE Ok(<<>>)

DormakabaDistributor_get_recommendations_keyless_first(specs_) ==
  LET door_type == Get(specs_, "doorType", PyStr("interior"))
      hl == DormakabaHardwareList(specs_)
      fire_rating == Get(specs_, "fireRating", PyStr("none"))
      has_glass == Get(specs_, "hasGlass", PyBool(FALSE))
      width == Get(specs_, "width", PyInt(36))
      prep_type == Get(specs_, "prepType", PyStr("single-bore"))
      is_fire_rated == IsFireRated(fire_rating)
      is_commercial == door_type \in {PyStr("commercial"), PyStr("exterior-entry")}
  IN  IF hl.raised THEN hl
      ELSE Then(DormakabaClosers(hl.value, is_commercial, width),
           Then(DormakabaLocks(hl.value, is_commercial, prep_type),
           Then(DormakabaDeadbolts(hl.value),
           Then(DormakabaExitDevices(door_type, has_glass, width),
           Then(DormakabaOperators(door_type),
           Then(IF is_commercial THEN DormakabaKeyless(door_type)
                ELSE DormakabaFireLifeSafety(is_fire_rated),
                IF is_commercial THEN DormakabaFireLifeSafety(is_fire_rated)
                ELSE DormakabaKeyless(door_type)))))))
DormakabaDistributor_get_recommendations(specs_) ==
  LET door_type == Get(specs_, "doorType", PyStr("interior"))
      hl == DormakabaHardwareList(specs_)
      fire_rating == Get(specs_, "fireRating", PyStr("none"))
      has_glass == Get(specs_, "hasGlass", PyBool(FALSE))
      width == Get(specs_, "width", PyInt(36))
      prep_type == Get(specs_, "prepType", PyStr("single-bore"))
      is_fire_rated == IsFireRated(fire_rating)
      is_commercial == door_type \in {PyStr("commercial"), PyStr("exterior-entry")}
  IN  IF hl.raised THEN hl
      ELSE Then(DormakabaClosers(hl.value, is_commercial, width),
           Then(DormakabaLocks(hl.value, is_commercial, prep_type),
           Then(DormakabaDeadbolts(hl.value),
           Then(DormakabaExitDevices(door_type, has_glass, width),
           Then(DormakabaOperators(door_type),
           Then(DormakabaFireLifeSafety(is_fire_rated),
                DormakabaKeyless(door_type)))))))

----------------------------------------------------------------------------
(* SecLockDistributor *)

SecLockDistributor_name == "SecLock"

\* int(x) as used on hingeCount
PyIntOf(v) ==
  CASE v.type = "int" -> Ok(v.val)
    [] v.type = "bool" -> Ok(IF v.val THEN 1 ELSE 0)
    [] v.type = "str" ->
         IF v.val \in NumericStrings THEN Ok(StrToNum(v.val)) ELSE Raise("ValueError")
    [] OTHER -> Raise("TypeError")

SecLockDistributor_create_recommendation(product, category) ==
  ProductRecommendation(product.name, category, product.description, product.url,
                        ListOf("seclock", product, "model_numbers"),
                        ListOf("seclock", product, "features"),
                        Get(product, "price_range", PyNone),
                        SecLockDistributor_name \o " (" \o Get(product, "manufacturer", "") \o ")")

\* recommendations.append(self._create_recommendation(p, category)) for p in products
SecLockEmit(products, category) ==
  [i \in 1..Len(products) |->
     SecLockDistributor_create_recommendation(products[i], category)]

\* Door Closers rule
SecLockClosers(is_commercial, is_fire_rated, is_heavy) ==
  IF is_commercial \/ is_fire_rated
  THEN IF is_heavy
       THEN SecLockEmit(Slice(SecLockDistributor_PRODUCTS.door_closers.lcn, 0, 1), "Door Closers")
       ELSE SecLockEmit(Slice(SecLockDistributor_PRODUCTS.door_closers.norton, 0, 1), "Door Closers")
  ELSE <<>>

\* Locks rule
SecLockLocks(hardware_list, is_commercial) ==
  IF InList("lockset", hardware_list) \/ InList("deadbolt", hardware_list) \/ is_commercial
  THEN IF is_commercial
       THEN SecLockEmit(Slice(SecLockDistributor_PRODUCTS.locks.schlage, 0, 1), "Commercial Locks")
            \o SecLockEmit(Slice(SecLockDistributor_PRODUCTS.locks.corbin_russwin, 0, 1),
                           "Commercial Locks")
       ELSE SecLockEmit(Slice(SecLockDistributor_PRODUCTS.locks.schlage, 2, 3), "Cylindrical Locks")
  ELSE <<>>

SecLockDeadboltsByCore(hardware_list, prep_type) ==
  IF InList("deadbolt", hardware_list)
  THEN IF prep_type = PyStr("high-security") \/ InList("ic_core", hardware_list)
       THEN SecLockEmit(SecLockDistributor_PRODUCTS.deadbolts.medeco, "High-Security Deadbolts")
       ELSE SecLockEmit(SecLockDistributor_PRODUCTS.deadbolts.schlage, "Commercial Deadbolts")
  ELSE <<>>
\* Deadbolts rule
SecLockDeadbolts(hardware_list, prep_type) ==
  IF InList("deadbolt", hardware_list)
  THEN IF prep_type = PyStr("high-security")
       THEN SecLockEmit(SecLockDistributor_PRODUCTS.deadbolts.medeco, "High-Security Deadbolts")
       ELSE SecLockEmit(SecLockDistributor_PRODUCTS.deadbolts.schlage, "Commercial Deadbolts")
  ELSE <<>>

\* Exit Devices rule
SecLockExitDevices(door_type, hardware_list) ==
  IF door_type \in {PyStr("commercial"), PyStr("exterior-entry")}
     \/ InList("panic", hardware_list)
  THEN SecLockEmit(Slice(SecLockDistributor_PRODUCTS.exit_devices.von_duprin, 0, 1), "Exit Devices")
       \o SecLockEmit(Slice(SecLockDistributor_PRODUCTS.exit_devices.falcon, 0, 1), "Exit Devices")
  ELSE <<>>

\* Hinges rule
SecLockHingesHeavyOnly(is_heavy, height) ==
  IF is_heavy \/ height > 84
  THEN SecLockEmit(Slice(SecLockDistributor_PRODUCTS.hinges.mckinney, 0, 1), "Hinges")
  ELSE <<>>
SecLockHinges(is_heavy, height) ==
  IF is_heavy \/ height > 84
  THEN SecLockEmit(Slice(SecLockDistributor_PRODUCTS.hinges.mckinney, 0, 1), "Hinges")
  ELSE SecLockEmit(Slice(SecLockDistributor_PRODUCTS.hinges.hager, 0, 1), "Hinges")

\* Electric hinges and Electronic Access Control rules
SecLockElectronic(hardware_list) ==
  (IF InList("electric_strike", hardware_list) \/ InList("maglock", hardware_list)
   THEN SecLockEmit(Slice(SecLockDistributor_PRODUCTS.hinges.mckinney, 1, 2), "Electric Hinges")
   ELSE <<>>)
  \o (IF InList("electric_strike", hardware_list)
      THEN SecLockEmit(Slice(SecLockDistributor_PRODUCTS.electronic_access.hes, 0, 1),
                       "Electric Strikes")
      ELSE <<>>)
  \o (IF InList("maglock", hardware_list)
      THEN SecLockEmit(SecLockDistributor_PRODUCTS.electronic_access.securitron,
                       "Electromagnetic Locks")
      ELSE <<>>)
  \o (IF InList("keypad", hardware_list)
      THEN SecLockEmit(SecLockDistributor_PRODUCTS.electronic_access.alarm_lock,
                       "Electronic Keypad Locks")
           \o SecLockEmit(SecLockDistributor_PRODUCTS.electronic_access.schlage_electronics,
                          "Electronic Access Control")
      ELSE <<>>)

\* Door Protection rule
SecLockProtection(is_commercial) ==
  IF is_commercial
  THEN SecLockEmit(Slice(SecLockDistributor_PRODUCTS.door_accessories.don_jo, 0, 1), "Door Protection")
       \o SecLockEmit(Slice(SecLockDistributor_PRODUCTS.door_accessories.rockwood, 0, 1),
                      "Push/Pull Plates")
  ELSE <<>>

\* Fire/Life Safety rule
SecLockFireLifeSafety(is_fire_rated) ==
  IF is_fire_rated
  THEN SecLockEmit(SecLockDistributor_PRODUCTS.fire_safety.lcn, "Fire Door Hardware")
       \o SecLockEmit(SecLockDistributor_PRODUCTS.weatherstripping.ngp, "Fire Door Seals")
  ELSE <<>>

\* Weatherstripping rule
SecLockWeatherstripping(door_type) ==
  IF door_type \in {PyStr("exterior-entry"), PyStr("exterior-patio")}
  THEN SecLockEmit(SecLockDistributor_PRODUCTS.weatherstripping.pemko, "Weatherstripping")
  ELSE <<>>

\* Automatic Operators and High Security Cylinders rules
SecLockOperatorsAndCylinders(hardware_list, prep_type) ==
  (IF InList("auto_operator", hardware_list)
   THEN SecLockEmit(SecLockDistributor_PRODUCTS.auto_operators.norton, "Automatic Door Operators")
   ELSE <<>>)
  \o (IF prep_type = PyStr("high-security") \/ InList("ic_core", hardware_list)
      THEN SecLockEmit(SecLockDistributor_PRODUCTS.cylinders.medeco, "High Security Cylinders")
           \o SecLockEmit(SecLockDistributor_PRODUCTS.cylinders.best, "Interchangeable Cores")
      ELSE <<>>)

SecLockDistributor_get_recommendations(specs_) ==
  LET door_type == Get(specs_, "doorType", PyStr("interior"))
      material == Get(specs_, "material", PyStr("wood"))
      fire_rating == Get(specs_, "fireRating", PyStr("none"))
      is_fire_rated == IsFireRated(fire_rating)
      hardware == Get(specs_, "hardware", PyList(<<>>))
      width == Float(Get(specs_, "width", PyInt(36)))
      height == Float(Get(specs_, "height", PyInt(80)))
      prep_type == Get(specs_, "prepType", PyNone)
      hinge_count == PyIntOf(Get(specs_, "hingeCount", PyInt(3)))
      is_heavy == width.value > 42 \/ height.value > 84
                  \/ material \in {PyStr("steel"), PyStr("fiberglass")}
      is_commercial == door_type \in {PyStr("commercial"), PyStr("exterior-entry")}
      hl == hardware.val
  IN  IF width.raised THEN width
      ELSE IF height.raised THEN height
      ELSE IF hardware.type # "list" THEN Raise("TypeError")
      ELSE IF hinge_count.raised THEN hinge_count
      ELSE Ok(SecLockClosers(is_commercial, is_fire_rated, is_heavy)
              \o SecLockLocks(hl, is_commercial)
              \o SecLockDeadbolts(hl, prep_type)
              \o SecLockExitDevices(door_type, hl)
              \o SecLockHinges(is_heavy, height.value)
              \o SecLockElectronic(hl)
              \o SecLockProtection(is_commercial)
              \o SecLockFireLifeSafety(is_fire_rated)
              \o SecLockWeatherstripping(door_type)
              \o SecLockOperatorsAndCylinders(hl, prep_type))

----------------------------------------------------------------------------
(* AssaAbloyDSSDistributor *)

AssaAbloyDSSDistributor_name == "ASSA ABLOY Door Security Solutions"

AssaAbloyDSSDistributor_create_recommendation(product, category) ==
  ProductRecommendation(product.name, category, product.description, product.url,
                        ListOf("assaabloy_dss", product, "model_numbers"),
                        ListOf("assaabloy_dss", product, "features"),
                        Get(product, "price_range", PyNone),
                        AssaAbloyDSSDistributor_name \o " (" \o Get(product, "manufacturer", "") \o ")")

\* recommendations.append(self._create_recommendation(p, category)) for p in products
AssaAbloyDSSEmit(products, category) ==
  [i \in 1..Len(products) |->
     AssaAbloyDSSDistributor_create_recommendation(products[i], category)]

\* Standard Hollow Metal Doors rule, with its frames
AssaAbloyDSSSteelBothLines(needs_steel, is_fire_rated) ==
  LET doors == AssaAbloyDSSDistributor_PRODUCTS.hollow_metal_doors
  IN  IF needs_steel
      THEN (IF is_fire_rated
            THEN AssaAbloyDSSEmit(Slice(doors.ceco, 1, 2), "Fire-Rated Steel Doors")
            ELSE <<>>)
           \o AssaAbloyDSSEmit(Slice(doors.ceco, 0, 1), "Commercial Steel Doors")
           \o AssaAbloyDSSEmit(Slice(doors.curries, 0, 1), "Commercial Steel Doors")
           \o AssaAbloyDSSEmit(Slice(AssaAbloyDSSDistributor_PRODUCTS.hollow_metal_frames.ceco, 0, 1),
                               "Hollow Metal Frames")
      ELSE <<>>
AssaAbloyDSSSteel(needs_steel, is_fire_rated) ==
  LET doors == AssaAbloyDSSDistributor_PRODUCTS.hollow_metal_doors
  IN  IF needs_steel
      THEN (IF is_fire_rated
            THEN AssaAbloyDSSEmit(Slice(doors.ceco, 1, 2), "Fire-Rated Steel Doors")
            ELSE AssaAbloyDSSEmit(Slice(doors.ceco, 0, 1), "Commercial Steel Doors")
                 \o AssaAbloyDSSEmit(Slice(doors.curries, 0, 1), "Commercial Steel Doors"))
           \o AssaAbloyDSSEmit(Slice(AssaAbloyDSSDistributor_PRODUCTS.hollow_metal_frames.ceco, 0, 1),
                               "Hollow Metal Frames")
      ELSE <<>>

AssaAbloyDSSSpecialtyExclusive(specs_, tag, flag, products, category) ==
  IF IF "specialtyType" \in DOMAIN specs_
     THEN specs_["specialtyType"] = PyStr(tag)
     ELSE Truthy(Get(specs_, flag, PyBool(FALSE)))
  THEN AssaAbloyDSSEmit(products, category)
  ELSE <<>>
\* one Specialty Doors rule: specialty_type == tag or the flag's truth value
AssaAbloyDSSSpecialty(specs_, tag, flag, products, category) ==
  IF Get(specs_, "specialtyType", PyNone) = PyStr(tag)
     \/ Truthy(Get(specs_, flag, PyBool(FALSE)))
  THEN AssaAbloyDSSEmit(products, category)
  ELSE <<>>

\* the Stainless Steel Doors rule tests the material instead of a flag
AssaAbloyDSSStainless(specs_, material) ==
  IF Get(specs_, "specialtyType", PyNone) = PyStr("stainless_steel")
     \/ material = PyStr("stainless")
  THEN AssaAbloyDSSEmit(AssaAbloyDSSDistributor_PRODUCTS.specialty_doors.stainless_steel,
                        "Stainless Steel Doors")
  ELSE <<>>

\* Designer doors rule
AssaAbloyDSSDesigner(specs_, is_commercial) ==
  IF is_commercial /\ Truthy(Get(specs_, "aesthetic", PyBool(FALSE)))
  THEN AssaAbloyDSSEmit(AssaAbloyDSSDistributor_PRODUCTS.hollow_metal_doors.rite_door,
                        "Designer Steel Doors")
  ELSE <<>>

AssaAbloyDSSDistributor_get_recommendations(specs_) ==
  LET door_type == Get(specs_, "doorType", PyStr("interior"))
      material == Get(specs_, "material", PyStr("wood"))
      fire_rating == Get(specs_, "fireRating", PyStr("none"))
      is_fire_rated == IsFireRated(fire_rating)
      width == Float(Get(specs_, "width", PyInt(36)))
      height == Float(Get(specs_, "height", PyInt(80)))
      is_commercial == door_type \in {PyStr("commercial"), PyStr("exterior-entry")}
      needs_steel == material \in {PyStr("steel"), PyStr("fiberglass")}
                     \/ is_commercial \/ is_fire_rated
      sd == AssaAbloyDSSDistributor_PRODUCTS.specialty_doors
  IN  IF width.raised THEN width
      ELSE IF height.raised THEN height
      ELSE Ok(AssaAbloyDSSSteel(needs_steel, is_fire_rated)
              \o AssaAbloyDSSSpecialty(specs_, "acoustical", "acoustical",
                                       sd.acoustical, "Acoustical Doors")
              \o AssaAbloyDSSSpecialty(specs_, "bullet_resistant", "bulletResistant",
                                       sd.bullet_resistant, "Bullet Resistant Doors")
              \o AssaAbloyDSSSpecialty(specs_, "blast_resistant", "blastResistant",
                                       sd.blast_resistant, "Blast Resistant Doors")
              \o AssaAbloyDSSSpecialty(specs_, "hurricane_resistant", "hurricaneResistant",
                                       sd.hurricane_resistant, "Hurricane Resistant Doors")
              \o AssaAbloyDSSSpecialty(specs_, "attack_resistant", "attackResistant",
                                       sd.attack_resistant, "Attack Resistant Doors")
              \o AssaAbloyDSSSpecialty(specs_, "flood_resistant", "floodResistant",
                                       sd.flood_resistant, "Flood Resistant Doors")
              \o AssaAbloyDSSSpecialty(specs_, "lead_lined", "leadLined",
                                       sd.lead_lined, "Lead-Lined Doors")
              \o AssaAbloyDSSStainless(specs_, material)
              \o AssaAbloyDSSSpecialty(specs_, "emi_shielding", "emiShielding",
                                       sd.emi_rfi_shielding, "EMI/RFI Shielding Doors")
              \o AssaAbloyDSSDesigner(specs_, is_commercial))

----------------------------------------------------------------------------
(* Registry and aggregator *)

\* the registry dict, in insertion order
DISTRIBUTORS == <<"dormakaba", "seclock", "assaabloy_dss">>

\* BaseDistributor.to_dict of the registered instance
BaseDistributor_to_dict(dist_id) ==
  CASE dist_id = "dormakaba" ->
         [name |-> DormakabaDistributor_name,
          website |-> "https://www.dormakaba.com/us-en",
          logo_url |-> "https://www.dormakaba.com/resource/image/27440/landscape_ratio16x9/1920/1080/bb5bad74bf8ad14ec6969bb6c6a0d6c/uD/dormakaba-logo-sharing.jpg"]
    [] dist_id = "seclock" ->
         [name |-> SecLockDistributor_name,
          website |-> "https://www.seclock.com",
          logo_url |-> "https://www.seclock.com/logo.png"]
    [] dist_id = "assaabloy_dss" ->
         [name |-> AssaAbloyDSSDistributor_name,
          website |-> "https://www.assaabloydss.com",
          logo_url |-> "https://www.assaabloydss.com/content/dam/assa-abloy/americas/dss/assa-abloy-dss/logos/assa-abloy-logo.svg"]

\* distributor.get_recommendations(specs) of the registered instance
get_recommendations(dist_id, specs_) ==
  CASE dist_id = "dormakaba" -> DormakabaDistributor_get_recommendations(specs_)
    [] dist_id = "seclock" -> SecLockDistributor_get_recommendations(specs_)
    [] dist_id = "assaabloy_dss" -> AssaAbloyDSSDistributor_get_recommendations(specs_)

\* {k: v for k, v in DISTRIBUTORS.items() if k in distributor_ids}, or the registry
distributors_to_query_request_order(distributor_ids) ==
  IF Truthy(distributor_ids)
  THEN SelectSeq(distributor_ids.val, LAMBDA k : InList(k, DISTRIBUTORS))
  ELSE DISTRIBUTORS
distributors_to_query_fallback(distributor_ids) ==
  LET chosen == SelectSeq(DISTRIBUTORS, LAMBDA k : InList(k, distributor_ids.val))
  IN  IF Truthy(distributor_ids) /\ chosen # <<>> THEN chosen ELSE DISTRIBUTORS
distributors_to_query(distributor_ids) ==
  IF Truthy(distributor_ids)
  THEN SelectSeq(DISTRIBUTORS, LAMBDA k : InList(k, distributor_ids.val))
  ELSE DISTRIBUTORS

\* the block appended for one distributor
dist_result(dist_id, recommendations) ==
  [id |-> dist_id,
   name |-> BaseDistributor_to_dict(dist_id).name,
   website |-> BaseDistributor_to_dict(dist_id).website,
   logo_url |-> BaseDistributor_to_dict(dist_id).logo_url,
   recommendations |->
     [i \in 1..Len(recommendations) |-> ProductRecommendation_to_dict(recommendations[i])],
   recommendation_count |-> Len(recommendations)]

\* the for loop of get_all_recommendations over the distributors still to query
RECURSIVE query_loop_assign(_, _, _)
query_loop_assign(to_query, specs_, results) ==
  IF to_query = <<>> THEN Ok(results)
  ELSE LET recommendations == get_recommendations(Head(to_query), specs_)
       IN  IF recommendations.raised THEN recommendations
           ELSE query_loop_assign(Tail(to_query), specs_,
                  [distributors |->
                     Append(results.distributors,
                            dist_result(Head(to_query), recommendations.value)),
                   total_recommendations |-> Len(recommendations.value)])
RECURSIVE query_loop_partial(_, _, _)
query_loop_partial(to_query, specs_, results) ==
  IF to_query = <<>> THEN Ok(results)
  ELSE LET recommendations == get_recommendations(Head(to_query), specs_)
       IN  IF recommendations.raised THEN Ok(results)
           ELSE query_loop_partial(Tail(to_query), specs_,
                  [distributors |->
                     Append(results.distributors,
                            dist_result(Head(to_query), recommendations.value)),
                   total_recommendations |->
                     results.total_recommendations + Len(recommendations.value)])
RECURSIVE query_loop(_, _, _)
query_loop(to_query, specs_, results) ==
  IF to_query = <<>> THEN Ok(results)
  ELSE LET recommendations == get_recommendations(Head(to_query), specs_)
       IN  IF recommendations.raised THEN recommendations
           ELSE query_loop(Tail(to_query), specs_,
                  [distributors |->
                     Append(results.distributors,
                            dist_result(Head(to_query), recommendations.value)),
                   total_recommendations |->
                     results.total_recommendations + Len(recommendations.value)])

get_all_recommendations(specs_, distributor_ids) ==
  query_loop(distributors_to_query(distributor_ids), specs_,
             [distributors |-> <<>>, total_recommendations |-> 0])

get_available_distributors_sorted ==
  LET sorted == <<"assaabloy_dss", "dormakaba", "seclock">>
  IN  [i \in 1..Len(sorted) |->
         [id |-> sorted[i],
          name |-> BaseDistributor_to_dict(sorted[i]).name,
          website |-> BaseDistributor_to_dict(sorted[i]).website,
          logo_url |-> BaseDistributor_to_dict(sorted[i]).logo_url]]
get_available_distributors ==
  [i \in 1..Len(DISTRIBUTORS) |->
     [id |-> DISTRIBUTORS[i],
      name |-> BaseDistributor_to_dict(DISTRIBUTORS[i]).name,
      website |-> BaseDistributor_to_dict(DISTRIBUTORS[i]).website,
      logo_url |-> BaseDistributor_to_dict(DISTRIBUTORS[i]).logo_url]]

\* ProductRecommendationsView.post on the request body `data`
ProductRecommendationsView_post(data) ==
  LET results == get_all_recommendations(data, Get(data, "distributors", PyNone))
  IN  IF results.raised
      THEN [status |-> 500, body |-> [error |-> results.error]]
      ELSE [status |-> 200, body |-> results.value]

\* DistributorsView.get
DistributorsView_get == [status |-> 200, body |-> [distributors |-> get_available_distributors]]

----------------------------------------------------------------------------
(* Inputs *)

\* longest hardware list and longest distributor id list a caller sends
MaxHardware == 1
MaxIds == 2
\* most matcher calls made after the one kept for comparison
MaxSince == 2

\* marks a key the caller leaves out of the mapping
Absent == [type |-> "absent"]

SpecKeys == {"doorType", "width", "height", "material", "fireRating", "hasGlass",
             "hardware", "prepType"}

\* the mapping with the keys whose choice is not Absent
MkSpec(choice) ==
  [k \in {key \in SpecKeys : choice[key] # Absent} |-> choice[k]]

SeqsUpTo(S, n) == UNION {[1..m -> S] : m \in 0..n}

HardwareTokens == {"lockset", "doorcloser", "deadbolt", "panic"}

\* well-typed specifications
Specs ==
  {MkSpec([doorType |-> dt, width |-> w, height |-> h, material |-> m,
           fireRating |-> fr, hasGlass |-> g, hardware |-> PyList(hw), prepType |-> pt]) :
     dt \in {Absent, PyStr("commercial"), PyStr("exterior-entry"), PyStr("exterior-patio")},
     w \in {Absent, PyInt(28), PyInt(30), PyInt(44), PyInt(48), PyInt(50)},
     h \in {Absent, PyInt(90)},
     m \in {Absent, PyStr("steel"), PyStr("stainless")},
     fr \in {Absent, PyStr("60-min")},
     g \in {Absent, PyBool(TRUE)},
     hw \in SeqsUpTo(HardwareTokens, MaxHardware),
     pt \in {Absent, PyStr("mortise"), PyStr("high-security")}}

\* end-to-end scenarios of the specification
ScenarioA ==
  [width |-> PyInt(36), height |-> PyInt(80), doorType |-> PyStr("interior"),
   material |-> PyStr("wood"), hardware |-> PyList(<<>>), fireRating |-> PyStr("none"),
   hasGlass |-> PyBool(FALSE)]
ScenarioB ==
  [doorType |-> PyStr("commercial"), width |-> PyInt(34), fireRating |-> PyStr("60-min"),
   hasGlass |-> PyBool(FALSE), hardware |-> PyList(<<"lockset">>)]

\* request bodies for the aggregate, some with a width float() rejects
AggSpecs ==
  {MkSpec([doorType |-> dt, width |-> w, height |-> Absent, material |-> Absent,
           fireRating |-> fr, hasGlass |-> Absent, hardware |-> hw, prepType |-> Absent]) :
     dt \in {Absent, PyStr("commercial"), PyStr("exterior-entry")},
     w \in {Absent, PyInt(28), PyStr("abc")},
     fr \in {Absent, PyStr("60-min")},
     hw \in {Absent, PyList(<<"lockset">>)}}
  \cup {ScenarioA, ScenarioB}

\* specifications of the calls made between two compared calls
\* hardware strings as callers type them, next to the tokens the rules test
RawTokens ==
  {"Lockset", "lockset", "Door Closer", "doorcloser", "Electric Strike", "electric_strike"}

\* request bodies as they arrive: JSON null values, numbers sent as strings
RawSpecs ==
  {[k \in {key \in DOMAIN choice : choice[key] # Absent} |-> choice[k]] :
     choice \in [doorType : {Absent, PyNone, PyStr("commercial")},
                 width : {Absent, PyNone, PyInt(34), PyStr("34")},
                 height : {Absent, PyNone, PyStr("80")},
                 fireRating : {Absent, PyNone},
                 hingeCount : {Absent, PyNone},
                 hardware : {Absent, PyNone} \cup
                            {PyList(l) : l \in SeqsUpTo(RawTokens, MaxHardware)}]}

\* most catalog list objects a caller writes through returned entries
MaxAppends == 1

\* most get_all_recommendations calls running at the same time
MaxThreads == 2
Threads == 1..MaxThreads

\* id lists of the concurrent callers
ConcIds == {PyNone, PyList(<<"seclock", "dormakaba">>), PyList(<<"assaabloy_dss">>)}

\* longest hardware list in the specifications that exercise every hardware rule
MaxTokens == 2

\* every hardware token a rule of some vendor tests
AllTokens ==
  {"lockset", "handle", "doorcloser", "deadbolt", "panic", "electric_strike", "maglock",
   "keypad", "auto_operator", "ic_core"}

\* specifications over all hardware tokens, repeated tokens included
HardwareSpecs ==
  {MkSpec([doorType |-> dt, width |-> Absent, height |-> Absent, material |-> Absent,
           fireRating |-> fr, hasGlass |-> Absent, hardware |-> PyList(hw), prepType |-> pt]) :
     dt \in {Absent, PyStr("commercial"), PyStr("exterior-entry"), PyStr("exterior-patio")},
     fr \in {Absent, PyStr("60-min")},
     hw \in SeqsUpTo(AllTokens, MaxTokens),
     pt \in {Absent, PyStr("mortise"), PyStr("high-security")}}

\* the boolean flags AssaAbloyDSSDistributor reads
SpecialtyFlags ==
  {"acoustical", "bulletResistant", "blastResistant", "hurricaneResistant",
   "attackResistant", "floodResistant", "leadLined", "emiShielding", "aesthetic"}

\* specifications carrying specialty flags, a specialtyType and the materials the steel
\* and stainless rules test
SpecialtySpecs ==
  {[k \in {key \in DOMAIN choice : choice[key] # Absent} |-> choice[k]] :
     choice \in [doorType : {Absent, PyStr("commercial")},
                 material : {Absent, PyStr("steel"), PyStr("stainless")},
                 fireRating : {Absent, PyStr("60-min")},
                 specialtyType : {Absent, PyStr("acoustical"), PyStr("stainless_steel")},
                 acoustical : {Absent, PyBool(TRUE), PyBool(FALSE)},
                 bulletResistant : {Absent, PyBool(TRUE)},
                 blastResistant : {Absent, PyBool(TRUE)},
                 hurricaneResistant : {Absent, PyBool(TRUE)},
                 attackResistant : {Absent, PyBool(TRUE)},
                 floodResistant : {Absent, PyBool(TRUE)},
                 leadLined : {Absent, PyBool(TRUE)},
                 emiShielding : {Absent, PyBool(TRUE)},
                 aesthetic : {Absent, PyBool(TRUE)}]}

OtherSpecs == {ScenarioA, ScenarioB, [width |-> PyStr("abc")]}

DistributorIds == {"dormakaba", "seclock", "assaabloy_dss", "acme"}

\* distributor_ids arguments: None (not given) or a list of ids
IdLists == {PyNone} \cup {PyList(l) : l \in SeqsUpTo(DistributorIds, MaxIds)}

----------------------------------------------------------------------------
(* State machine *)

NoCall == [op |-> "none", vendor |-> "", ids |-> PyNone, spec |-> <<>>, out |-> Ok(<<>>)]
NotSeen == [vendor |-> "", spec |-> <<>>, out |-> Ok(<<>>), since |-> 0]
\* a thread that is not inside get_all_recommendations
Idle == [pc |-> "idle", spec |-> <<>>, ids |-> PyNone, todo |-> <<>>, out |-> Ok(<<>>)]

Init ==
  /\ heap = <<>>
  /\ specs \in AggSpecs
  /\ ret = NoCall
  /\ seen = NotSeen
  /\ calls = [t \in Threads |-> Idle]

InitMatch ==
  /\ heap = <<>>
  /\ specs \in Specs \cup {ScenarioA, ScenarioB}
  /\ ret = NoCall
  /\ seen = NotSeen
  /\ calls = [t \in Threads |-> Idle]

\* a distributor's get_recommendations called directly with specification s;
\* calls are synchronous: one call at a time, started when the engine is idle
InitRaw ==
  /\ heap = <<>>
  /\ specs \in RawSpecs
  /\ ret = NoCall
  /\ seen = NotSeen
  /\ calls = [t \in Threads |-> Idle]

InitConc ==
  /\ heap = <<>>
  /\ specs = ScenarioA
  /\ ret = NoCall
  /\ seen = NotSeen
  /\ calls = [t \in Threads |-> Idle]

InitWide ==
  /\ heap = <<>>
  /\ specs \in HardwareSpecs \cup SpecialtySpecs
  /\ ret = NoCall
  /\ seen = NotSeen
  /\ calls = [t \in Threads |-> Idle]

InitAlias ==
  /\ heap = <<>>
  /\ specs \in {ScenarioA, ScenarioB}
  /\ ret = NoCall
  /\ seen = NotSeen
  /\ calls = [t \in Threads |-> Idle]

CallMatcherWriting(v, s) ==
  LET out == get_recommendations(v, s)
      written == {<<v, out.value[i].name, "features">> : i \in 1..Len(out.value)}
  IN  /\ ret = NoCall
      /\ ret' = [op |-> "get_recommendations", vendor |-> v, ids |-> PyNone, spec |-> s,
                 out |-> out]
      /\ heap' = [id \in DOMAIN heap \cup written |->
                    IF id \in DOMAIN heap THEN heap[id] ELSE <<"recommended">>]
      /\ UNCHANGED <<specs, calls>>
CallMatcher(v, s) ==
  /\ ret = NoCall
  /\ ret' = [op |-> "get_recommendations", vendor |-> v, ids |-> PyNone, spec |-> s,
             out |-> get_recommendations(v, s)]
  /\ UNCHANGED <<heap, specs, calls>>

\* counts the matcher calls made after the kept one
Counted ==
  IF seen = NotSeen THEN UNCHANGED seen
  ELSE /\ seen.since < MaxSince
       /\ seen' = [seen EXCEPT !.since = @ + 1]

GetRecommendations(v) ==
  /\ CallMatcher(v, specs)
  /\ Counted

\* the same call, its outcome kept for comparison with later calls
GetRecommendationsAndKeep(v) ==
  /\ seen = NotSeen
  /\ CallMatcher(v, specs)
  /\ seen' = [vendor |-> v, spec |-> specs, out |-> ret'.out, since |-> 0]

\* a call with another specification
GetRecommendationsOther(v, s) ==
  /\ CallMatcher(v, s)
  /\ Counted

GetAllRecommendationsFilling(ids) ==
  /\ ret = NoCall
  /\ ret' = [op |-> "get_all_recommendations", vendor |-> "", ids |-> ids, spec |-> specs,
              out |-> get_all_recommendations(specs, ids)]
  /\ specs' = [k \in DOMAIN specs \cup {"doorType"} |->
                 IF k \in DOMAIN specs THEN specs[k] ELSE PyStr("interior")]
  /\ UNCHANGED <<heap, seen, calls>>
GetAllRecommendations(ids) ==
  /\ ret = NoCall
  /\ ret' = [op |-> "get_all_recommendations", vendor |-> "", ids |-> ids, spec |-> specs,
             out |-> get_all_recommendations(specs, ids)]
  /\ UNCHANGED <<heap, specs, seen, calls>>

\* POST /recommendations/ with body specs plus, when given, the distributors key
Post(ids) ==
  LET data == IF ids = PyNone THEN specs
              ELSE [k \in DOMAIN specs \cup {"distributors"} |->
                      IF k = "distributors" THEN ids ELSE specs[k]]
  IN  /\ ret = NoCall
      /\ ret' = [op |-> "post", vendor |-> "", ids |-> ids, spec |-> data,
                 out |-> Ok(ProductRecommendationsView_post(data))]
      /\ UNCHANGED <<heap, specs, seen, calls>>

GetAvailableDistributors ==
  /\ ret = NoCall
  /\ ret' = [op |-> "get_available_distributors", vendor |-> "", ids |-> PyNone,
             spec |-> <<>>, out |-> Ok(DistributorsView_get)]
  /\ UNCHANGED <<heap, specs, seen, calls>>

\* the caller takes the outcome; the engine is idle again
Return ==
  /\ ret # NoCall
  /\ ret' = NoCall
  /\ UNCHANGED <<heap, specs, seen, calls>>

\* results = get_all_recommendations(specs); the caller keeps a copy of what it got
GetAllRecommendationsAndKeep ==
  /\ ret = NoCall
  /\ seen = NotSeen
  /\ ret' = [op |-> "get_all_recommendations", vendor |-> "", ids |-> PyNone, spec |-> specs,
              out |-> get_all_recommendations(specs, PyNone)]
  /\ seen' = [vendor |-> "", spec |-> specs, out |-> ret'.out, since |-> 0]
  /\ UNCHANGED <<heap, specs, calls>>

\* results['distributors'][b]['recommendations'][i][field].append("x") by the caller: the
\* list of the entry is the list object of the catalog product when that list is non-empty
CallerAppends(b, i, field) ==
  LET block == ret.out.value.distributors[b]
      entry == block.recommendations[i]
      id == <<block.id, entry.name, field>>
      written == entry[field] \o <<"x">>
  IN  /\ seen # NotSeen
      /\ seen.since = 0
      /\ Cardinality(DOMAIN heap) < MaxAppends
      /\ id \notin DOMAIN heap
      /\ Len(entry[field]) > 0
      /\ heap' = [k \in DOMAIN heap \cup {id} |-> IF k = id THEN written ELSE heap[k]]
      /\ ret' = [ret EXCEPT !.out.value.distributors[b].recommendations =
                    [j \in 1..Len(@) |->
                       IF @[j].name = entry.name THEN [@[j] EXCEPT ![field] = written]
                       ELSE @[j]]]
      /\ UNCHANGED <<specs, seen, calls>>

\* the caller picks an entry of the result it holds
CallerModifies ==
  /\ ret.op = "get_all_recommendations"
  /\ ~ret.out.raised
  /\ \E b \in 1..Len(ret.out.value.distributors) :
       \E i \in 1..Len(ret.out.value.distributors[b].recommendations) :
         \E field \in {"model_numbers", "features"} : CallerAppends(b, i, field)

\* a later get_all_recommendations(specs) with the same specification
GetAllRecommendationsAgain ==
  /\ ret = NoCall
  /\ seen # NotSeen
  /\ seen.since < MaxSince
  /\ ret' = [op |-> "get_all_recommendations", vendor |-> "", ids |-> PyNone, spec |-> specs,
              out |-> get_all_recommendations(specs, PyNone)]
  /\ seen' = [seen EXCEPT !.since = @ + 1]
  /\ UNCHANGED <<heap, specs, calls>>

NextAlias ==
  \/ GetAllRecommendationsAndKeep
  \/ CallerModifies
  \/ GetAllRecommendationsAgain
  \/ Return

\* thread t enters get_all_recommendations(specs_, distributor_ids): results and
\* distributors_to_query are locals of the call
CallBegin(t, specs_, distributor_ids) ==
  /\ calls[t].pc = "idle"
  /\ calls' = [calls EXCEPT ![t] =
                 [pc |-> "loop", spec |-> specs_, ids |-> distributor_ids,
                  todo |-> distributors_to_query(distributor_ids),
                  out |-> Ok([distributors |-> <<>>, total_recommendations |-> 0])]]
  /\ UNCHANGED <<heap, specs, ret, seen>>

\* one iteration of the for loop in thread t, or its return when the loop is over
CallStepShared(t) ==
  LET c == calls[t]
      recommendations == get_recommendations(Head(c.todo), c.spec)
  IN  /\ c.pc = "loop"
      /\ calls' =
           IF c.todo = <<>> THEN [calls EXCEPT ![t].pc = "done"]
           ELSE IF recommendations.raised
           THEN [calls EXCEPT ![t].pc = "done", ![t].out = recommendations]
           ELSE [u \in Threads |->
                   IF calls[u].pc = "loop"
                   THEN [calls[u] EXCEPT
                           !.todo = IF u = t THEN Tail(@) ELSE @,
                           !.out = Ok([distributors |->
                                         Append(@.value.distributors,
                                                dist_result(Head(c.todo), recommendations.value)),
                                       total_recommendations |->
                                         @.value.total_recommendations
                                           + Len(recommendations.value)])]
                   ELSE calls[u]]
      /\ UNCHANGED <<heap, specs, ret, seen>>
CallStep(t) ==
  LET c == calls[t]
      recommendations == get_recommendations(Head(c.todo), c.spec)
  IN  /\ c.pc = "loop"
      /\ calls' =
           IF c.todo = <<>> THEN [calls EXCEPT ![t].pc = "done"]
           ELSE IF recommendations.raised
           THEN [calls EXCEPT ![t].pc = "done", ![t].out = recommendations]
           ELSE [calls EXCEPT
                   ![t].todo = Tail(@),
                   ![t].out = Ok([distributors |->
                                    Append(@.value.distributors,
                                           dist_result(Head(c.todo), recommendations.value)),
                                  total_recommendations |->
                                    @.value.total_recommendations
                                      + Len(recommendations.value)])]
      /\ UNCHANGED <<heap, specs, ret, seen>>

\* the caller of thread t has taken the result
CallEnd(t) ==
  /\ calls[t].pc = "done"
  /\ calls' = [calls EXCEPT ![t] = Idle]
  /\ UNCHANGED <<heap, specs, ret, seen>>

NextConc ==
  \/ \E t \in Threads, s \in OtherSpecs, ids \in ConcIds : CallBegin(t, s, ids)
  \/ \E t \in Threads : CallStep(t)
  \/ \E t \in Threads : CallEnd(t)

Next ==
  \/ \E v \in DistributorIds \ {"acme"} : GetRecommendations(v)
  \/ \E v \in DistributorIds \ {"acme"} : GetRecommendationsAndKeep(v)
  \/ \E v \in DistributorIds \ {"acme"}, s \in OtherSpecs : GetRecommendationsOther(v, s)
  \/ \E ids \in IdLists : GetAllRecommendations(ids)
  \/ \E ids \in IdLists : Post(ids)
  \/ GetAvailableDistributors
  \/ Return

NextMatch ==
  \/ \E v \in DistributorIds \ {"acme"} : GetRecommendations(v)
  \/ Return

Spec == Init /\ [][Next]_vars

SpecAlias == InitAlias /\ [][NextAlias]_vars
SpecConc == InitConc /\ [][NextConc]_vars
SpecWide == InitWide /\ [][NextMatch]_vars
SpecRaw == InitRaw /\ [][NextMatch]_vars
SpecMatch == InitMatch /\ [][NextMatch]_vars

----------------------------------------------------------------------------
(* Properties *)

Aggregated == ret.op = "get_all_recommendations" /\ ~ret.out.raised
Posted == ret.op = "post" /\ ret.out.value.status = 200
Matched(v) == ret.op = "get_recommendations" /\ ret.vendor = v

RECURSIVE SumCounts(_)
SumCounts(blocks) ==
  IF blocks = <<>> THEN 0
  ELSE Head(blocks).recommendation_count + SumCounts(Tail(blocks))

CountsAgree(results) ==
  /\ \A i \in 1..Len(results.distributors) :
       results.distributors[i].recommendation_count
         = Len(results.distributors[i].recommendations)
  /\ results.total_recommendations = SumCounts(results.distributors)

\* C1: in every aggregate result each block's recommendation_count is the length of
\* its recommendations list and total_recommendations is the sum of the counts
C1_CountInvariant ==
  /\ Aggregated => CountsAgree(ret.out.value)
  /\ Posted => CountsAgree(ret.out.value.body)

C1_Witness ==
  /\ Aggregated
  /\ Len(ret.out.value.distributors) = 3
  /\ ret.out.value.distributors[1].recommendation_count > 0
  /\ ret.out.value.distributors[2].recommendation_count > 0
  /\ ret.out.value.total_recommendations
       > ret.out.value.distributors[3].recommendation_count

RegistryRank(id) ==
  CASE id = "dormakaba" -> 1 [] id = "seclock" -> 2 [] id = "assaabloy_dss" -> 3

BlockIds(results) == [i \in 1..Len(results.distributors) |-> results.distributors[i].id]

Requested(ids) == {ids.val[i] : i \in 1..Len(ids.val)}

\* C2: with a non-empty id list the blocks are exactly the registry vendors named in
\* the list, once each, in the order dormakaba, seclock, assaabloy_dss; with no list
\* there is one block per registry vendor in that order
C2_RegistryOrder ==
  Aggregated =>
    LET b == BlockIds(ret.out.value)
    IN  IF Truthy(ret.ids)
        THEN /\ {b[i] : i \in 1..Len(b)}
                  = Requested(ret.ids) \cap {"dormakaba", "seclock", "assaabloy_dss"}
             /\ \A i, j \in 1..Len(b) : i < j => RegistryRank(b[i]) < RegistryRank(b[j])
        ELSE ret.ids = PyNone => b = <<"dormakaba", "seclock", "assaabloy_dss">>

C2_Witness ==
  /\ Aggregated
  /\ ret.ids = PyList(<<"seclock", "dormakaba">>)
  /\ BlockIds(ret.out.value) = <<"dormakaba", "seclock">>

Known(ids) ==
  PyList(SelectSeq(ids.val, LAMBDA k : k \in {"dormakaba", "seclock", "assaabloy_dss"}))

\* C3: an id outside the registry is dropped without error: the outcome is that of the
\* same call with the unknown ids removed, and a list of unknown ids only gives an
\* empty distributors list with total_recommendations 0
C3_UnknownDropped ==
  (ret.op = "get_all_recommendations" /\ Truthy(ret.ids) /\ "acme" \in Requested(ret.ids)) =>
    IF Truthy(Known(ret.ids))
    THEN ret.out = get_all_recommendations(ret.spec, Known(ret.ids))
    ELSE ret.out = Ok([distributors |-> <<>>, total_recommendations |-> 0])

C3_Witness ==
  /\ ret.op = "get_all_recommendations"
  /\ ret.ids = PyList(<<"acme">>)
  /\ Get(ret.spec, "width", PyNone) = PyStr("abc")
  /\ ret.out = Ok([distributors |-> <<>>, total_recommendations |-> 0])

\* C4: a later call of a vendor's get_recommendations with the specification of an
\* earlier call returns the same ordered list, whatever calls were made in between
C4_Determinism ==
  (Matched(seen.vendor) /\ seen.since > 0 /\ ret.spec = seen.spec) => ret.out = seen.out

C4_Witness ==
  /\ Matched(seen.vendor)
  /\ seen.since = 2
  /\ ret.spec = seen.spec
  /\ ~ret.out.raised
  /\ Len(ret.out.value) > 1

Selected(ids) ==
  IF Truthy(ids) THEN Requested(ids) \cap {"dormakaba", "seclock", "assaabloy_dss"}
  ELSE {"dormakaba", "seclock", "assaabloy_dss"}

\* C5: when the matcher of a selected vendor raises, the aggregate call raises and
\* returns nothing, and the view answers with the error alone
C5_FailFast ==
  /\ (ret.op = "get_all_recommendations"
      /\ \E v \in Selected(ret.ids) : get_recommendations(v, ret.spec).raised)
       => ret.out.raised /\ ret.out.value = <<>>
  /\ (ret.op = "post"
      /\ \E v \in Selected(ret.ids) : get_recommendations(v, ret.spec).raised)
       => ret.out.value.status = 500 /\ DOMAIN ret.out.value.body = {"error"}

C5_Witness ==
  /\ ret.op = "get_all_recommendations"
  /\ ret.ids = PyNone
  /\ ~get_recommendations("dormakaba", ret.spec).raised
  /\ Len(get_recommendations("dormakaba", ret.spec).value) > 0
  /\ get_recommendations("seclock", ret.spec).raised
  /\ ret.out.raised

Categories(recs) == {recs[i].category : i \in 1..Len(recs)}

NamesOf(products) == {products[i].name : i \in 1..Len(products)}

\* labels a vendor stamps on the entries of its Fire/Life Safety rule
FireCategories(v) ==
  CASE v = "dormakaba" -> {"Fire/Life Safety"}
    [] v = "seclock" -> {"Fire Door Hardware", "Fire Door Seals"}
    [] OTHER -> {}

\* C6: for a specification with fireRating other than "none", Dormakaba and SecLock
\* each return at least one entry of their Fire/Life Safety category
C6_FirePropagation ==
  \A v \in {"dormakaba", "seclock"} :
    (Matched(v) /\ Get(ret.spec, "fireRating", PyStr("none")) # PyStr("none")) =>
      /\ ~ret.out.raised
      /\ Categories(ret.out.value) \cap FireCategories(v) # {}

C6_Witness ==
  /\ Matched("dormakaba")
  /\ Get(ret.spec, "fireRating", PyStr("none")) = PyStr("60-min")
  /\ Get(ret.spec, "doorType", PyStr("interior")) = PyStr("exterior-patio")
  /\ "Fire/Life Safety" \in Categories(ret.out.value)

EntryNames(recs, category) ==
  {recs[i].name : i \in {j \in 1..Len(recs) : recs[j].category = category}}

\* C7: for hasGlass true and doorType commercial, Dormakaba returns a narrow-stile
\* exit device and no rim exit device, at every width
C7_GlassExclusivity ==
  (Matched("dormakaba") /\ Truthy(Get(ret.spec, "hasGlass", PyBool(FALSE)))
   /\ Get(ret.spec, "doorType", PyStr("interior")) = PyStr("commercial")) =>
    /\ ~ret.out.raised
    /\ EntryNames(ret.out.value, "Exit Devices")
         \cap NamesOf(DormakabaDistributor_PRODUCTS.exit_devices.narrow_stile) # {}
    /\ NamesOf(ret.out.value)
         \cap NamesOf(DormakabaDistributor_PRODUCTS.exit_devices.rim) = {}

C7_Witness ==
  /\ Matched("dormakaba")
  /\ Truthy(Get(ret.spec, "hasGlass", PyBool(FALSE)))
  /\ Get(ret.spec, "doorType", PyStr("interior")) = PyStr("commercial")
  /\ Get(ret.spec, "width", PyInt(36)) = PyInt(44)
  /\ "9000NS Narrow Stile Exit Device" \in EntryNames(ret.out.value, "Exit Devices")

\* C8: for doorType exterior-entry and a width below 30, Dormakaba returns no Exit
\* Devices entry, with or without glass and whatever the hardware
C8_WidthBoundedExit ==
  (Matched("dormakaba")
   /\ Get(ret.spec, "doorType", PyStr("interior")) = PyStr("exterior-entry")
   /\ Get(ret.spec, "width", PyInt(36)).val < 30) =>
    /\ ~ret.out.raised
    /\ "Exit Devices" \notin Categories(ret.out.value)

C8_Witness ==
  /\ Matched("dormakaba")
  /\ Get(ret.spec, "doorType", PyStr("interior")) = PyStr("exterior-entry")
  /\ Get(ret.spec, "width", PyInt(36)) = PyInt(28)
  /\ Truthy(Get(ret.spec, "hasGlass", PyBool(FALSE)))
  /\ Get(ret.spec, "hardware", PyList(<<>>)) = PyList(<<"panic">>)
  /\ ~ret.out.raised
  /\ "Door Operators" \in Categories(ret.out.value)

\* C9: for scenario B, Dormakaba and SecLock each return a Door Closers entry, a lock
\* entry, a rim exit device under Exit Devices and a Fire/Life Safety entry
C9_ScenarioB ==
  /\ (Matched("dormakaba") /\ ret.spec = ScenarioB) =>
       /\ ~ret.out.raised
       /\ {"Door Closers", "Mechanical Locks"} \subseteq Categories(ret.out.value)
       /\ EntryNames(ret.out.value, "Exit Devices")
            \cap NamesOf(DormakabaDistributor_PRODUCTS.exit_devices.rim) # {}
       /\ Categories(ret.out.value) \cap FireCategories("dormakaba") # {}
  /\ (Matched("seclock") /\ ret.spec = ScenarioB) =>
       /\ ~ret.out.raised
       /\ {"Door Closers", "Commercial Locks"} \subseteq Categories(ret.out.value)
       /\ "Von Duprin 99 Series Exit Device" \in EntryNames(ret.out.value, "Exit Devices")
       /\ Categories(ret.out.value) \cap FireCategories("seclock") # {}

C9_Witness ==
  /\ Matched("seclock")
  /\ ret.spec = ScenarioB
  /\ "Door Closers" \in Categories(ret.out.value)

\* C10: for scenario A over the full registry no block holds a fire entry and the
\* Dormakaba and SecLock blocks hold no Exit Devices entry
C10_ScenarioA ==
  (ret.op = "get_all_recommendations" /\ ret.spec = ScenarioA /\ ret.ids = PyNone) =>
    /\ ~ret.out.raised
    /\ BlockIds(ret.out.value) = <<"dormakaba", "seclock", "assaabloy_dss">>
    /\ \A i \in 1..3 :
         Categories(ret.out.value.distributors[i].recommendations)
           \cap {"Fire/Life Safety", "Fire Door Hardware", "Fire Door Seals",
                 "Fire-Rated Steel Doors"} = {}
    /\ \A i \in 1..2 :
         "Exit Devices" \notin Categories(ret.out.value.distributors[i].recommendations)

C10_Witness ==
  /\ Aggregated
  /\ ret.spec = ScenarioA
  /\ ret.ids = PyNone
  /\ ret.out.value.total_recommendations > 0

\* C11: get_available_distributors returns, after any earlier calls, the vendors in the
\* order dormakaba, seclock, assaabloy_dss, each item holding id, name, website and
\* logo_url only
C11_ListingStable ==
  ret.op = "get_available_distributors" =>
    LET d == ret.out.value.body.distributors
    IN  /\ [i \in 1..Len(d) |-> d[i].id] = <<"dormakaba", "seclock", "assaabloy_dss">>
        /\ \A i \in 1..Len(d) : DOMAIN d[i] = {"id", "name", "website", "logo_url"}

C11_Witness ==
  /\ ret.op = "get_available_distributors"
  /\ seen.since = MaxSince
  /\ Len(ret.out.value.body.distributors) = 3

NotCoercible(specs_, key) == key \in DOMAIN specs_ /\ Float(specs_[key]).raised

\* C12: an aggregate call whose specification has a width or height that float() cannot
\* convert fails, whatever the vendor selection and the doorType
C12_InvalidSpecificationRejected ==
  /\ ret.op = "get_all_recommendations"
  /\ NotCoercible(ret.spec, "width") \/ NotCoercible(ret.spec, "height")
  => ret.out.raised

\* C16: an aggregate call with an empty id list returns no vendor block and
\* total_recommendations 0
C16_EmptyListSelectsNothing ==
  Aggregated /\ ret.ids = PyList(<<>>) =>
    /\ ret.out.value.distributors = <<>>
    /\ ret.out.value.total_recommendations = 0

IsList(x) == DOMAIN x = 1..Cardinality(DOMAIN x)

EntryFields ==
  {"name", "category", "model_numbers", "price_range", "description", "url",
   "features", "distributor"}

\* C17: every entry of every block of an aggregate result has the keys name, category,
\* model_numbers, price_range, description, url, features and distributor, and its
\* model_numbers and features are lists
C17_EntryFields ==
  Aggregated =>
    \A b \in 1..Len(ret.out.value.distributors) :
      LET recs == ret.out.value.distributors[b].recommendations
      IN  \A i \in 1..Len(recs) :
            /\ EntryFields \subseteq DOMAIN recs[i]
            /\ IsList(recs[i].model_numbers)
            /\ IsList(recs[i].features)

C17_Witness ==
  /\ Aggregated
  /\ Len(ret.out.value.distributors) = 3
  /\ \A b \in 1..3 : Len(ret.out.value.distributors[b].recommendations) > 0

\* C18: no call writes a catalog list (the overlay of written lists stays empty, so every
\* catalog reads as its literal) and no call changes the caller's specification mapping
C18_ReadOnly == [](heap = <<>>) /\ [][heap' = heap /\ specs' = specs]_vars

C18_Witness ==
  /\ Aggregated
  /\ ret.ids # PyNone
  /\ ret.out.value.total_recommendations > 0
  /\ specs = ret.spec
  /\ heap = <<>>

StripNulls(specs_) == [k \in {key \in DOMAIN specs_ : specs_[key] # PyNone} |-> specs_[k]]

\* C13: a matcher gives for a specification with null-valued fields the outcome it gives
\* for the specification with those fields absent
C13_NullIsAbsent ==
  \A v \in {"dormakaba", "seclock", "assaabloy_dss"} :
    Matched(v) => ret.out = get_recommendations(v, StripNulls(ret.spec))

NumberOf(v) ==
  IF v.type = "str" /\ v.val \in NumericStrings THEN PyInt(StrToNum(v.val)) ELSE v

WithNumbers(specs_) ==
  [k \in DOMAIN specs_ |->
     IF k \in {"width", "height"} THEN NumberOf(specs_[k]) ELSE specs_[k]]

\* C14: a matcher gives for a specification whose width or height is a numeric string
\* the outcome it gives for the specification with the equal number
C14_NumericStrings ==
  \A v \in {"dormakaba", "seclock", "assaabloy_dss"} :
    Matched(v) => ret.out = get_recommendations(v, WithNumbers(ret.spec))

\* the other spelling of a hardware token
Respelled(h) ==
  CASE h = "Lockset" -> "lockset"
    [] h = "lockset" -> "Lockset"
    [] h = "Door Closer" -> "doorcloser"
    [] h = "doorcloser" -> "Door Closer"
    [] h = "Electric Strike" -> "electric_strike"
    [] h = "electric_strike" -> "Electric Strike"
    [] OTHER -> h

WithRespelledHardware(specs_) ==
  [k \in DOMAIN specs_ |->
     IF k = "hardware" /\ specs_[k].type = "list"
     THEN PyList([i \in 1..Len(specs_[k].val) |-> Respelled(specs_[k].val[i])])
     ELSE specs_[k]]

\* C15: a matcher gives the same outcome for two specifications that differ only in the
\* case, spaces and underscores of their hardware strings
C15_HardwareFormatting ==
  \A v \in {"dormakaba", "seclock", "assaabloy_dss"} :
    Matched(v) => ret.out = get_recommendations(v, WithRespelledHardware(ret.spec))

\* C19: after a caller appended to the model_numbers or features list of a returned
\* entry, no catalog list is written, and a later aggregate call with the same
\* specification returns what the call returned before the modification
C19_FreshEntries ==
  /\ heap = <<>>
  /\ (ret.op = "get_all_recommendations" /\ seen # NotSeen /\ seen.since > 0)
       => ret.out = seen.out

\* C20: under every interleaving of the loop iterations of concurrent
\* get_all_recommendations calls, a call that has returned has the outcome of the same
\* call run alone, and its blocks are in the order dormakaba, seclock, assaabloy_dss
C20_ConcurrentCalls ==
  \A t \in Threads :
    calls[t].pc = "done" =>
      /\ calls[t].out = get_all_recommendations(calls[t].spec, calls[t].ids)
      /\ ~calls[t].out.raised =>
            LET b == BlockIds(calls[t].out.value)
            IN  \A i, j \in 1..Len(b) : i < j => RegistryRank(b[i]) < RegistryRank(b[j])

C20_Witness ==
  \E t, u \in Threads :
    /\ t # u
    /\ calls[t].pc = "done"
    /\ ~calls[t].out.raised
    /\ Len(calls[t].out.value.distributors) = 2
    /\ calls[u].pc = "loop"
    /\ calls[u].spec # calls[t].spec
    /\ Len(calls[u].out.value.distributors) = 1
    /\ calls[u].todo # <<>>

\* the category labels of a vendor in the order its rules append them
CategoryOrder(v) ==
  CASE v = "dormakaba" ->
         <<"Door Closers", "Mechanical Locks", "Exit Devices", "Door Operators",
           "Fire/Life Safety", "Keyless Entry", "Electronic Access">>
    [] v = "seclock" ->
         <<"Door Closers", "Commercial Locks", "Cylindrical Locks", "High-Security Deadbolts",
           "Commercial Deadbolts", "Exit Devices", "Hinges", "Electric Hinges",
           "Electric Strikes", "Electromagnetic Locks", "Electronic Keypad Locks",
           "Electronic Access Control", "Door Protection", "Push/Pull Plates",
           "Fire Door Hardware", "Fire Door Seals", "Weatherstripping",
           "Automatic Door Operators", "High Security Cylinders", "Interchangeable Cores">>
    [] v = "assaabloy_dss" ->
         <<"Fire-Rated Steel Doors", "Commercial Steel Doors", "Hollow Metal Frames",
           "Acoustical Doors", "Bullet Resistant Doors", "Blast Resistant Doors",
           "Hurricane Resistant Doors", "Attack Resistant Doors", "Flood Resistant Doors",
           "Lead-Lined Doors", "Stainless Steel Doors", "EMI/RFI Shielding Doors",
           "Designer Steel Doors">>

CategoryRank(v, category) ==
  CHOOSE i \in 1..Len(CategoryOrder(v)) : CategoryOrder(v)[i] = category

HardwareOf(specs_) == Get(specs_, "hardware", PyList(<<>>)).val
DoorTypeOf(specs_) == Get(specs_, "doorType", PyStr("interior"))

\* categories of rules whose predicate holds for the specification and whose entries
\* are not filtered further
DueCategories(v, specs_) ==
  LET hw == HardwareOf(specs_)
      dt == DoorTypeOf(specs_)
      commercial == dt \in {PyStr("commercial"), PyStr("exterior-entry")}
      fire == Get(specs_, "fireRating", PyStr("none")) # PyStr("none")
      secure == Get(specs_, "prepType", PyNone) = PyStr("high-security")
  IN  CASE v = "dormakaba" ->
             (IF commercial \/ InList("doorcloser", hw) THEN {"Door Closers"} ELSE {})
             \cup (IF InList("lockset", hw) \/ InList("handle", hw) \/ InList("deadbolt", hw)
                   THEN {"Mechanical Locks"} ELSE {})
             \cup (IF commercial THEN {"Door Operators"} ELSE {})
             \cup (IF fire THEN {"Fire/Life Safety"} ELSE {})
             \cup (IF dt \in {PyStr("commercial"), PyStr("interior")}
                   THEN {"Keyless Entry", "Electronic Access"} ELSE {})
        [] v = "seclock" ->
             {"Hinges"}
             \cup (IF commercial \/ fire THEN {"Door Closers"} ELSE {})
             \cup (IF commercial THEN {"Commercial Locks", "Door Protection", "Push/Pull Plates"}
                   ELSE {})
             \cup (IF commercial \/ InList("panic", hw) THEN {"Exit Devices"} ELSE {})
             \cup (IF InList("electric_strike", hw) THEN {"Electric Hinges", "Electric Strikes"}
                   ELSE {})
             \cup (IF InList("maglock", hw) THEN {"Electric Hinges", "Electromagnetic Locks"}
                   ELSE {})
             \cup (IF InList("keypad", hw)
                   THEN {"Electronic Keypad Locks", "Electronic Access Control"} ELSE {})
             \cup (IF fire THEN {"Fire Door Hardware", "Fire Door Seals"} ELSE {})
             \cup (IF dt \in {PyStr("exterior-entry"), PyStr("exterior-patio")}
                   THEN {"Weatherstripping"} ELSE {})
             \cup (IF InList("auto_operator", hw) THEN {"Automatic Door Operators"} ELSE {})
             \cup (IF secure \/ InList("ic_core", hw)
                   THEN {"High Security Cylinders", "Interchangeable Cores"} ELSE {})
        [] v = "assaabloy_dss" ->
             (IF commercial \/ fire THEN {"Hollow Metal Frames"} ELSE {})
             \cup (IF commercial /\ Truthy(Get(specs_, "aesthetic", PyBool(FALSE)))
                   THEN {"Designer Steel Doors"} ELSE {})

C22_MortiseOrCylindrical ==
  (/\ Matched("dormakaba")
   /\ ~ret.out.raised
   /\ InList("lockset", HardwareOf(ret.spec)) \/ InList("handle", HardwareOf(ret.spec))) =>
    LET names == NamesOf(ret.out.value)
        mortise == NamesOf(DormakabaDistributor_PRODUCTS.mechanical_locks.mortise)
        cylindrical == NamesOf(DormakabaDistributor_PRODUCTS.mechanical_locks.cylindrical)
    IN  IF Get(ret.spec, "prepType", PyStr("single-bore")) = PyStr("mortise")
           \/ DoorTypeOf(ret.spec) = PyStr("commercial")
        THEN mortise \subseteq names /\ cylindrical \cap names = {}
        ELSE cylindrical \subseteq names /\ mortise \cap names = {}

\* C23: Dormakaba and SecLock return a Door Closers entry exactly when hardware contains
\* doorcloser or doorType is commercial or exterior-entry
C23_CloserTrigger ==
  \A v \in {"dormakaba", "seclock"} :
    (Matched(v) /\ ~ret.out.raised) =>
      ("Door Closers" \in Categories(ret.out.value)
         <=> \/ InList("doorcloser", HardwareOf(ret.spec))
             \/ DoorTypeOf(ret.spec) \in {PyStr("commercial"), PyStr("exterior-entry")})

WidthOf(specs_) == Get(specs_, "width", PyInt(36)).val

\* C24: when Dormakaba's exit-device rule fires and hasGlass is false, the Exit Devices
\* entries are exactly the rim devices with min_door_width <= width <= max_door_width:
\* the 9000 Series rim device for widths 30 to 48, both included, and none outside
C24_RimWidthRange ==
  (/\ Matched("dormakaba")
   /\ ~ret.out.raised
   /\ ~Truthy(Get(ret.spec, "hasGlass", PyBool(FALSE)))
   /\ \/ DoorTypeOf(ret.spec) = PyStr("commercial")
      \/ DoorTypeOf(ret.spec) = PyStr("exterior-entry") /\ WidthOf(ret.spec) >= 30) =>
    LET rim == DormakabaDistributor_PRODUCTS.exit_devices.rim
        w == WidthOf(ret.spec)
        exits == EntryNames(ret.out.value, "Exit Devices")
    IN  /\ exits = {rim[i].name : i \in {j \in 1..Len(rim) :
                       rim[j].min_door_width <= w /\ w <= rim[j].max_door_width}}
        /\ exits = IF 30 <= w /\ w <= 48 THEN {"9000 Series Rim Exit Device"} ELSE {}

C24_Witness ==
  /\ Matched("dormakaba")
  /\ DoorTypeOf(ret.spec) = PyStr("commercial")
  /\ "hasGlass" \notin DOMAIN ret.spec
  /\ WidthOf(ret.spec) = 48
  /\ EntryNames(ret.out.value, "Exit Devices") = {"9000 Series Rim Exit Device"}

\* every catalog record of Dormakaba
DormakabaRecords ==
  LET p == DormakabaDistributor_PRODUCTS
  IN  p.door_closers.surface_mounted \o p.door_closers.concealed
      \o p.mechanical_locks.mortise \o p.mechanical_locks.cylindrical
      \o p.mechanical_locks.deadbolt
      \o p.exit_devices.rim \o p.exit_devices.narrow_stile
      \o p.low_energy_operators \o p.fire_life_safety
      \o p.simplex_locks \o p.electronic_access

\* C25: every entry Dormakaba returns whose catalog record has a door_types list has the
\* specification's doorType in that list, and every returned entry whose record has
\* max_door_width has width <= max_door_width
C25_EmbeddedConstraints ==
  (Matched("dormakaba") /\ ~ret.out.raised) =>
    \A i \in 1..Len(ret.out.value) :
      \A r \in 1..Len(DormakabaRecords) :
        LET record == DormakabaRecords[r]
        IN  record.name = ret.out.value[i].name =>
              /\ "door_types" \in DOMAIN record =>
                    InList(DoorTypeOf(ret.spec).val, record.door_types)
              /\ "max_door_width" \in DOMAIN record =>
                    WidthOf(ret.spec) <= record.max_door_width

CountOf(recs, category) == Cardinality({i \in 1..Len(recs) : recs[i].category = category})

\* C26: ASSA ABLOY returns exactly one Hollow Metal Frames entry when it returns a
\* Fire-Rated Steel Doors or Commercial Steel Doors entry and none otherwise, and the
\* steel doors are of the fire-rated line alone when fireRating is not none and of the
\* standard line alone otherwise
C26_FramePairedWithSteel ==
  (Matched("assaabloy_dss") /\ ~ret.out.raised) =>
    LET recs == ret.out.value
        steel == Categories(recs) \cap {"Fire-Rated Steel Doors", "Commercial Steel Doors"}
    IN  /\ CountOf(recs, "Hollow Metal Frames") = IF steel # {} THEN 1 ELSE 0
        /\ steel \subseteq
             IF Get(ret.spec, "fireRating", PyStr("none")) # PyStr("none")
             THEN {"Fire-Rated Steel Doors"} ELSE {"Commercial Steel Doors"}

C26_Witness ==
  /\ Matched("assaabloy_dss")
  /\ Get(ret.spec, "fireRating", PyStr("none")) = PyStr("60-min")
  /\ Get(ret.spec, "material", PyStr("wood")) = PyStr("steel")
  /\ "Fire-Rated Steel Doors" \in Categories(ret.out.value)
  /\ "Acoustical Doors" \in Categories(ret.out.value)
  /\ CountOf(ret.out.value, "Hollow Metal Frames") = 1

\* the specialty rules of ASSA ABLOY: specialtyType value, flag, catalog key and label
\* (the stainless rule has no flag and tests the material)
Specialties ==
  {[tag |-> "acoustical", flag |-> "acoustical", key |-> "acoustical",
    category |-> "Acoustical Doors"],
   [tag |-> "bullet_resistant", flag |-> "bulletResistant", key |-> "bullet_resistant",
    category |-> "Bullet Resistant Doors"],
   [tag |-> "blast_resistant", flag |-> "blastResistant", key |-> "blast_resistant",
    category |-> "Blast Resistant Doors"],
   [tag |-> "hurricane_resistant", flag |-> "hurricaneResistant", key |-> "hurricane_resistant",
    category |-> "Hurricane Resistant Doors"],
   [tag |-> "attack_resistant", flag |-> "attackResistant", key |-> "attack_resistant",
    category |-> "Attack Resistant Doors"],
   [tag |-> "flood_resistant", flag |-> "floodResistant", key |-> "flood_resistant",
    category |-> "Flood Resistant Doors"],
   [tag |-> "lead_lined", flag |-> "leadLined", key |-> "lead_lined",
    category |-> "Lead-Lined Doors"],
   [tag |-> "stainless_steel", flag |-> "", key |-> "stainless_steel",
    category |-> "Stainless Steel Doors"],
   [tag |-> "emi_shielding", flag |-> "emiShielding", key |-> "emi_rfi_shielding",
    category |-> "EMI/RFI Shielding Doors"]}

\* the flag of a specialty is set (for stainless: the material is stainless)
FlagHolds(specs_, s) ==
  IF s.flag = "" THEN Get(specs_, "material", PyStr("wood")) = PyStr("stainless")
  ELSE Truthy(Get(specs_, s.flag, PyBool(FALSE)))

TypeNames(specs_, s) == Get(specs_, "specialtyType", PyNone) = PyStr(s.tag)

SpecialtyEntries(recs, s) ==
  [i \in 1..Len(SelectSeq(recs, LAMBDA e : e.category = s.category)) |->
     SelectSeq(recs, LAMBDA e : e.category = s.category)[i].name]

SpecialtyProducts(s) ==
  [i \in 1..Len(AssaAbloyDSSDistributor_PRODUCTS.specialty_doors[s.key]) |->
     AssaAbloyDSSDistributor_PRODUCTS.specialty_doors[s.key][i].name]

\* C27 as stated: the entries of each specialty are returned exactly when its flag is
\* set (for stainless, when the material is stainless), whatever the other attributes
C27_FlagAloneDecides ==
  (Matched("assaabloy_dss") /\ ~ret.out.raised) =>
    \A s \in Specialties :
      SpecialtyEntries(ret.out.value, s) =
        IF FlagHolds(ret.spec, s) THEN SpecialtyProducts(s) ELSE <<>>

\* C27: the entries of each specialty are returned exactly when its flag is set (for
\* stainless, when the material is stainless) or specialtyType names that specialty,
\* whatever the other flags and attributes are; several triggers together return the
\* entries of all of them
C27_SpecialtyRulesIndependent ==
  (Matched("assaabloy_dss") /\ ~ret.out.raised) =>
    \A s \in Specialties :
      SpecialtyEntries(ret.out.value, s) =
        IF FlagHolds(ret.spec, s) \/ TypeNames(ret.spec, s) THEN SpecialtyProducts(s)
        ELSE <<>>

C27_Witness ==
  /\ Matched("assaabloy_dss")
  /\ Get(ret.spec, "specialtyType", PyNone) = PyStr("acoustical")
  /\ "acoustical" \notin DOMAIN ret.spec
  /\ {"bulletResistant", "leadLined", "emiShielding"} \subseteq DOMAIN ret.spec
  /\ {"Acoustical Doors", "Bullet Resistant Doors", "Lead-Lined Doors",
      "EMI/RFI Shielding Doors"} \subseteq Categories(ret.out.value)

\* C28: no recommendation list of a vendor holds two entries with the same product
\* name, also for hardware lists with repeated tokens and with every specialty flag set
C28_NoDuplicateProducts ==
  \A v \in {"dormakaba", "seclock", "assaabloy_dss"} :
    (Matched(v) /\ ~ret.out.raised) =>
      \A i, j \in 1..Len(ret.out.value) :
        i # j => ret.out.value[i].name # ret.out.value[j].name

C28_Witness ==
  /\ Matched("dormakaba")
  /\ HardwareOf(ret.spec) = <<"deadbolt", "deadbolt">>
  /\ DoorTypeOf(ret.spec) = PyStr("commercial")
  /\ CountOf(ret.out.value, "Mechanical Locks") = 1

RECURSIVE IsSubList(_, _)
\* a is b with some elements left out, order kept
IsSubList(a, b) ==
  IF a = <<>> THEN TRUE
  ELSE IF b = <<>> THEN FALSE
  ELSE IF Head(a) = Head(b) THEN IsSubList(Tail(a), Tail(b))
  ELSE IsSubList(a, Tail(b))

\* the specification with one more token in its hardware list
WithToken(specs_, token) ==
  [k \in DOMAIN specs_ \cup {"hardware"} |->
     IF k = "hardware" THEN PyList(Append(HardwareOf(specs_), token)) ELSE specs_[k]]

\* C29: for every vendor, the list returned for a specification is an order-preserving
\* sub-list of the list returned for the same specification with one more hardware token
C29_MonotoneInHardware ==
  \A v \in {"dormakaba", "seclock", "assaabloy_dss"} :
    (Matched(v) /\ ~ret.out.raised) =>
      \A token \in AllTokens :
        LET more == get_recommendations(v, WithToken(ret.spec, token))
        IN  ~more.raised /\ IsSubList(ret.out.value, more.value)

C29_Witness ==
  /\ Matched("seclock")
  /\ HardwareOf(ret.spec) = <<"deadbolt", "lockset">>
  /\ Len(get_recommendations("seclock", WithToken(ret.spec, "ic_core")).value)
       = Len(ret.out.value) + 2

\* width > 42, height > 84 or material steel or fiberglass
IsHeavy(specs_) ==
  \/ WidthOf(specs_) > 42
  \/ Get(specs_, "height", PyInt(80)).val > 84
  \/ Get(specs_, "material", PyStr("wood")) \in {PyStr("steel"), PyStr("fiberglass")}

=============================================================================
